---- MODULE Spec2Model ----
(***************************************************************************)
(* A model of the BUDDHA BLE protocol client (src/src/BuddhaBleClient.ts): *)
(* the wire codec, the connection session driven by scanAndConnect and     *)
(* disconnect, and the facade's read/write/subscribe operations as they    *)
(* interleave with the transport (react-native-ble-plx), which is the      *)
(* environment of the model.                                               *)
(***************************************************************************)
EXTENDS Integers, Sequences, FiniteSets, TLC

\* ------------------------------------------------------------------ bounds
\* scanAndConnect invocations in one behaviour
MaxCalls == 2
\* the largest timeoutMs a caller passes, in clock ticks
MaxTimeout == 2
\* facade operations that can be in flight together
MaxOps == 4
\* facade operations invoked in one behaviour
MaxOpCalls == 2
\* calls the transport makes of the monitor listeners in one behaviour
MaxNotes == 3
\* the longest step list encoded
MaxSteps == 2
\* the longest step-list payload decoded, in bytes
MaxBytes == 6
\* the highest id a step of the treatment form is given
MaxStepId == 2
\* cancelConnection() requests made on one link
MaxCancels == 2
\* Advertisements of matching devices one scan listener is called with.
MaxMatches == 2

\* ------------------------------------------------------------------- codec
\* The base64 alphabet as indices 0..63; Pad is the '=' sign.
Pad == 64

\* Buffer.from(Uint8Array.from(bytes)).toString('base64')
RECURSIVE b64FromBytes(_)
b64FromBytes(bytes) ==
    IF Len(bytes) = 0 THEN <<>>
    ELSE IF Len(bytes) = 1 THEN
        << bytes[1] \div 4, (bytes[1] % 4) * 16, Pad, Pad >>
    ELSE IF Len(bytes) = 2 THEN
        << bytes[1] \div 4, (bytes[1] % 4) * 16 + bytes[2] \div 16,
           (bytes[2] % 16) * 4, Pad >>
    ELSE
        << bytes[1] \div 4, (bytes[1] % 4) * 16 + bytes[2] \div 16,
           (bytes[2] % 16) * 4 + bytes[3] \div 64, bytes[3] % 64 >>
        \o b64FromBytes(SubSeq(bytes, 4, Len(bytes)))

\* Uint8Array.from(Buffer.from(b64, 'base64'))
RECURSIVE bytesFromB64(_)
bytesFromB64(b64) ==
    IF Len(b64) < 2 \/ b64[1] = Pad \/ b64[2] = Pad THEN <<>>
    ELSE IF Len(b64) = 2 \/ b64[3] = Pad THEN
        << b64[1] * 4 + b64[2] \div 16 >>
    ELSE IF Len(b64) = 3 \/ b64[4] = Pad THEN
        << b64[1] * 4 + b64[2] \div 16, (b64[2] % 16) * 16 + b64[3] \div 4 >>
    ELSE
        << b64[1] * 4 + b64[2] \div 16, (b64[2] % 16) * 16 + b64[3] \div 4,
           (b64[3] % 4) * 64 + b64[4] >>
        \o bytesFromB64(SubSeq(b64, 5, Len(b64)))

\* v & 0xFF on a JavaScript integer (two's complement low byte)
LowByte(v) == v % 256
\* (v >> 8) & 0xFF
HighByte(v) == (v \div 256) % 256

writeU8(v) == b64FromBytes(<< LowByte(v) >>)
writeU16(v) == b64FromBytes(<< LowByte(v), HighByte(v) >>)

\* d[i] in an expression with | and <<: an index past the end reads as 0
ByteAt(d, i) == IF i <= Len(d) THEN d[i] ELSE 0

readU8(value) == bytesFromB64(value)[1]
readU16(value) ==
    LET d == bytesFromB64(value) IN ByteAt(d, 1) + 256 * ByteAt(d, 2)
\* readI16 without the sign: the 16 bits read as they are.
readI16Unsigned(value) ==
    LET d == bytesFromB64(value) IN ByteAt(d, 1) + 256 * ByteAt(d, 2)

readI16(value) ==
    LET d == bytesFromB64(value)
        v == ByteAt(d, 1) + 256 * ByteAt(d, 2)
        isNegative == (v \div 32768) % 2 # 0
    IN IF isNegative THEN v - 65536 ELSE v

\* ValidStep with the lower bound of durationMs at 0.
ValidStepZero(st) ==
    /\ st.amplitudePct >= 0 /\ st.amplitudePct <= 100
    /\ st.durationMs >= 0 /\ st.durationMs <= 65535

\* A value the step validation of packStepsToB64 accepts: [amp][dur_lo][dur_hi]
ValidStep(st) ==
    /\ st.amplitudePct >= 0 /\ st.amplitudePct <= 100
    /\ st.durationMs >= 1 /\ st.durationMs <= 65535

\* packStepsToB64 throws ('steps required', 'amplitudePct must be ...',
\* 'durationMs must be ...') exactly when this is false.
PackAccepts(steps) ==
    /\ Len(steps) # 0
    /\ \A i \in 1..Len(steps) : ValidStep(steps[i])

\* StepBytes with the duration high byte first.
RECURSIVE StepBytesBigEndian(_)
StepBytesBigEndian(steps) ==
    IF Len(steps) = 0 THEN <<>>
    ELSE << LowByte(steps[1].amplitudePct), HighByte(steps[1].durationMs),
            LowByte(steps[1].durationMs) >> \o StepBytesBigEndian(Tail(steps))

RECURSIVE StepBytes(_)
StepBytes(steps) ==
    IF Len(steps) = 0 THEN <<>>
    ELSE << LowByte(steps[1].amplitudePct), LowByte(steps[1].durationMs),
            HighByte(steps[1].durationMs) >> \o StepBytes(Tail(steps))

packStepsToB64(steps) == b64FromBytes(StepBytes(steps))

\* A characteristic whose value is null.
NullValue == << Pad >>

\* UnpackAccepts without the test for an absent payload: null is malformed.
UnpackAcceptsValue(b64) ==
    /\ b64 # NullValue
    /\ b64 = <<>> \/ Len(bytesFromB64(b64)) % 3 = 0

\* UnpackAccepts without the length check.
UnpackAcceptsAny(b64) == TRUE

\* unpackStepsFromB64 throws 'Malformed step list payload' when this is false.
UnpackAccepts(b64) ==
    \/ b64 = NullValue
    \/ b64 = <<>>
    \/ Len(bytesFromB64(b64)) % 3 = 0

\* StepsOfBytes with the duration read as d[i + 1] << 8 | d[i + 2].
RECURSIVE StepsOfBytesBigEndian(_)
StepsOfBytesBigEndian(d) ==
    IF Len(d) < 3 THEN <<>>
    ELSE << [ amplitudePct |-> d[1], durationMs |-> 256 * d[2] + d[3] ] >>
         \o StepsOfBytesBigEndian(SubSeq(d, 4, Len(d)))

RECURSIVE StepsOfBytes(_)
StepsOfBytes(d) ==
    IF Len(d) < 3 THEN <<>>
    ELSE << [ amplitudePct |-> d[1], durationMs |-> d[2] + 256 * d[3] ] >>
         \o StepsOfBytes(SubSeq(d, 4, Len(d)))

unpackStepsFromB64(b64) ==
    IF b64 = NullValue \/ b64 = <<>> THEN <<>>
    ELSE StepsOfBytes(bytesFromB64(b64))

\* --------------------------------------------------------- field registry
\* Characteristics, by the names of their UUID constants.
ReadChars == { "C_HW_VER", "C_FW_VER", "C_BATT_LEVEL", "C_BATT_AVG_I",
               "C_BATT_STATUS", "C_CHG_CONN", "C_STEP_LIST", "C_CTRL",
               "C_TOTAL_MS", "C_LRA1_EN", "C_LRA2_EN", "C_LRA3_EN",
               "C_REMAIN_MS", "C_INTENSITY", "C_STATUS", "C_ERROR" }


\* ------------------------------------------------------------------ state
VARIABLES
    device,     \* this.device: 0 is null, c > 0 the Device that call c obtained
    calls,      \* the scanAndConnect invocations, by call number
    nCalls,     \* how many scanAndConnect invocations were made
    scanning,   \* the scan listener the manager holds: its call and namePrefix
    links,      \* the transport's link to the device each call connected
    disc,       \* the disconnect() invocation in progress or last finished
    ops,        \* the facade operations in flight or just finished, by slot
    nOps,       \* how many facade operations were invoked
    monitors,   \* the characteristic monitors registered with the transport
    codec,      \* a use of the codec: its input, its position and its result
    adapter,    \* the state the Bluetooth adapter reports
    screen      \* the treatment screen: its form, its flags and its handlers

vars == << device, calls, nCalls, scanning, links, disc, ops, nOps, monitors,
          codec, adapter, screen >>

NoDev == 0
CallIds == 1..MaxCalls
\* The Device objects the scan listeners are handed: that of the i-th matching
\* advertisement call c's listener is called with.
Devs == 1..(MaxCalls * MaxMatches)
DevOf(c, i) == c + (i - 1) * MaxCalls
Slots == 1..MaxOps

\* Advertised names, as character sequences; NoName is a device without one,
\* DeviceName the name of a BUDDHA device.
NoName == << "null" >>
DeviceName == << "B", "U", "D", "D", "1" >>
\* No device: the scan listener has not been called with one.
NotHeard == << >>
\* opts?.namePrefix ?? 'BUDD'
DefaultPrefix == << "B", "U", "D", "D" >>

\* device?.name?.startsWith(namePrefix)
NameMatches(name, prefix) ==
    /\ name # NoName
    /\ Len(prefix) <= Len(name)
    /\ SubSeq(name, 1, Len(prefix)) = prefix

\* A call: its promise (st, err), its deadline timer (timer, and while it is
\* armed its delay and the time elapsed), the namePrefix its scan listener
\* holds (prefix), the runs of the listener on a matching device (cb: where
\* each is, and the name of its device), how many times device.connect() was
\* called (attempts), and the name of the device matched last (matched).
IdleCall == [ st |-> "idle", err |-> "none", timer |-> "none", timeout |-> 0,
              elapsed |-> 0, prefix |-> << >>, cb |-> << >>, attempts |-> 0,
              matched |-> NotHeard ]

\* The runs of a call's listener that are at st.
RunsAt(call, st) == { i \in 1..Len(call.cb) : call.cb[i].st = st }

\* No scan is active. An active scan has the call that started it, its
\* namePrefix and the name of the device its listener was last called with.
NoScan == [ call |-> 0, prefix |-> <<>>, heard |-> NotHeard ]

\* `turn` alternates with every disconnect() invocation, so that each one is a
\* step of its own; `pc` is "awaiting" while any invocation awaits
\* cancelConnection(), `dev` and `result` are those of the invocation that
\* last started or settled.
IdleDisc == [ pc |-> "idle", dev |-> NoDev, result |-> "none", turn |-> 0 ]

\* A link: `cancels` counts the cancelConnection() requests made on it, `pend`
\* those of them not yet settled.
NoLink == [ st |-> "none", cancels |-> 0, held |-> 0, pend |-> 0 ]

\* resolve()/reject(e) of the promise scanAndConnect returns: only the first
\* settles it.
Settle(call, st, err) ==
    IF call.st = "pending" THEN [ call EXCEPT !.st = st, !.err = err ] ELSE call

\* clearTimeout(timer)
ClearTimeout(call) ==
    IF call.timer = "armed"
    THEN [ call EXCEPT !.timer = "cleared", !.timeout = 0, !.elapsed = 0 ]
    ELSE call

\* ------------------------------------------------------- scanAndConnect
\* The call up to the return of the promise: the timer is armed and the scan
\* is started (startDeviceScan replaces the manager's scan listener).
ScanAndConnect(c, timeoutMs, namePrefix) ==
    /\ c = nCalls + 1
    /\ c \in CallIds
    /\ \A k \in CallIds : calls[k].st # "pending"
    /\ disc.pc # "awaiting"
    /\ calls' = [ calls EXCEPT ![c] =
                    [ IdleCall EXCEPT !.st = "pending", !.timer = "armed",
                                      !.timeout = timeoutMs,
                                      !.prefix = namePrefix ] ]
    /\ nCalls' = c
    /\ scanning' = [ call |-> c, prefix |-> namePrefix, heard |-> NotHeard ]
    /\ UNCHANGED << device, links, disc, ops, nOps, monitors, codec,
                    adapter, screen >>

\* Time passes for a call whose timer is armed.
Tick(c) ==
    /\ calls[c].timer = "armed"
    /\ calls[c].elapsed < calls[c].timeout
    /\ calls' = [ calls EXCEPT ![c].elapsed = @ + 1 ]
    /\ UNCHANGED << device, nCalls, scanning, links, disc, ops, nOps, monitors, codec,
                    adapter, screen >>

\* TimerDue with the delay ignored: the callback may run as soon as it is armed.
TimerDueEarly(call) == call.timer = "armed"

\* setTimeout may run its callback once the delay has elapsed.
TimerDue(call) == call.timer = "armed" /\ call.elapsed >= call.timeout

\* The deadline callback: stopDeviceScan(), then reject('Scan timeout').
TimerFire(c) ==
    /\ TimerDue(calls[c])
    /\ scanning' = NoScan
    /\ calls' = [ calls EXCEPT ![c] =
                    Settle([ @ EXCEPT !.timer = "fired", !.timeout = 0,
                                      !.elapsed = 0 ],
                           "rejected", "ScanTimeout") ]
    /\ UNCHANGED << device, nCalls, links, disc, ops, nOps, monitors, codec,
                    adapter, screen >>

\* ScanError without clearTimeout(timer): the deadline stays armed.
ScanErrorKeepingTimer(c) ==
    /\ scanning.call = c
    /\ scanning' = NoScan
    /\ calls' = [ calls EXCEPT ![c] = Settle(@, "rejected", "ScanError") ]
    /\ UNCHANGED << device, nCalls, links, disc, ops, nOps, monitors, codec,
                    adapter, screen >>

\* The scan listener is called with an error.
ScanError(c) ==
    /\ scanning.call = c
    /\ scanning' = NoScan
    /\ calls' = [ calls EXCEPT ![c] =
                    Settle(ClearTimeout(@), "rejected", "ScanError") ]
    /\ UNCHANGED << device, nCalls, links, disc, ops, nOps, monitors, codec,
                    adapter, screen >>

\* ScanAdvert with clearTimeout(timer) at the match, before device.connect().
ScanAdvertClearing(c, name) ==
    /\ calls[c].st # "idle"
    /\ IF NameMatches(name, calls[c].prefix)
       THEN /\ Len(calls[c].cb) < MaxMatches
            /\ scanning' = NoScan
            /\ calls' = [ calls EXCEPT ![c] =
                            ClearTimeout([ @ EXCEPT
                                !.cb = Append(@, [ st |-> "connecting", name |-> name ]),
                                !.attempts = @ + 1,
                                !.matched = name ]) ]
       ELSE /\ scanning' = IF scanning.call = c
                           THEN [ scanning EXCEPT !.heard = name ]
                           ELSE scanning
            /\ calls' = calls
    /\ UNCHANGED << device, nCalls, links, disc, ops, nOps, monitors, codec,
                    adapter, screen >>

\* The scan listener call c passed to startDeviceScan is called with an
\* advertising device. A match stops the manager's scan and starts
\* device.connect() on that device; anything else is ignored. The listener
\* keeps no record of a match before.
ScanAdvert(c, name) ==
    /\ calls[c].st # "idle"
    /\ IF NameMatches(name, calls[c].prefix)
       THEN /\ Len(calls[c].cb) < MaxMatches
            /\ scanning' = NoScan
            /\ calls' = [ calls EXCEPT
                            ![c].cb = Append(@, [ st |-> "connecting", name |-> name ]),
                            ![c].attempts = @ + 1,
                            ![c].matched = name ]
       ELSE /\ scanning' = IF scanning.call = c
                           THEN [ scanning EXCEPT !.heard = name ]
                           ELSE scanning
            /\ calls' = calls
    /\ UNCHANGED << device, nCalls, links, disc, ops, nOps, monitors, codec,
                    adapter, screen >>

\* ConnectOk with the session assigned as soon as the link is open.
ConnectOkAssigning(c) ==
    \E i \in RunsAt(calls[c], "connecting") :
      /\ links' = [ links EXCEPT ![DevOf(c, i)].st = "open" ]
      /\ calls' = [ calls EXCEPT ![c].cb[i].st = "discovering" ]
      /\ device' = DevOf(c, i)
      /\ UNCHANGED << nCalls, scanning, disc, ops, nOps, monitors, codec,
                      adapter, screen >>

\* The user switches Bluetooth on or off. The client does not read the
\* adapter's state.
AdapterPower(state) ==
    /\ adapter # state
    /\ adapter' = state
    /\ UNCHANGED << device, calls, nCalls, scanning, links, disc, ops, nOps,
                    monitors, codec, screen >>

\* device.connect() of a run resolves: the link is open, enumeration starts.
ConnectOk(c) ==
    \E i \in RunsAt(calls[c], "connecting") :
      /\ links' = [ links EXCEPT ![DevOf(c, i)].st = "open" ]
      /\ calls' = [ calls EXCEPT ![c].cb[i].st = "discovering" ]
      /\ UNCHANGED << device, nCalls, scanning, disc, ops, nOps, monitors,
                      codec, adapter, screen >>

\* device.connect() of a run rejects: catch, clearTimeout, reject(e).
ConnectFail(c) ==
    \E i \in RunsAt(calls[c], "connecting") :
      /\ calls' = [ calls EXCEPT ![c] =
                      Settle(ClearTimeout([ @ EXCEPT !.cb[i].st = "failed" ]),
                             "rejected", "ConnectError") ]
      /\ UNCHANGED << device, nCalls, scanning, links, disc, ops, nOps,
                      monitors, codec, adapter, screen >>

\* discoverAllServicesAndCharacteristics() of a run resolves: this.device is
\* assigned, clearTimeout, resolve().
DiscoverOk(c) ==
    \E i \in RunsAt(calls[c], "discovering") :
      /\ links[DevOf(c, i)].st = "open"
      /\ device' = DevOf(c, i)
      /\ calls' = [ calls EXCEPT ![c] =
                      Settle(ClearTimeout([ @ EXCEPT !.cb[i].st = "done" ]),
                             "resolved", "none") ]
      /\ UNCHANGED << nCalls, scanning, links, disc, ops, nOps, monitors,
                      codec, adapter, screen >>

\* discoverAllServicesAndCharacteristics() of a run rejects: catch,
\* clearTimeout, reject(e). The link connect() opened is left as it is.
DiscoverFail(c) ==
    \E i \in RunsAt(calls[c], "discovering") :
      /\ calls' = [ calls EXCEPT ![c] =
                      Settle(ClearTimeout([ @ EXCEPT !.cb[i].st = "failed" ]),
                             "rejected", "DiscoverError") ]
      /\ UNCHANGED << device, nCalls, scanning, links, disc, ops, nOps,
                      monitors, codec, adapter, screen >>

\* The transport loses a link (device out of range, powered off). The client
\* registers no listener for it.
LinkLost(c) ==
    /\ links[c].st = "open"
    /\ links' = [ links EXCEPT ![c].st = "lost" ]
    /\ UNCHANGED << device, calls, nCalls, scanning, disc, ops, nOps, monitors, codec,
                    adapter, screen >>

\* ------------------------------------------------------------- disconnect
\* Some disconnect() awaits cancelConnection().
Pending == \E c \in Devs : links[c].pend > 0

\* Disconnect written with requireDev(): it throws when there is no session.
DisconnectRequiring ==
    /\ IF device # NoDev
       THEN /\ links[device].cancels < MaxCancels
            /\ disc' = [ pc |-> "awaiting", dev |-> device, result |-> "none",
                         turn |-> 1 - disc.turn ]
            /\ links' = [ links EXCEPT ![device].cancels = @ + 1,
                                       ![device].pend = @ + 1 ]
       ELSE /\ disc' = [ pc |-> IF Pending THEN "awaiting" ELSE "done",
                         dev |-> NoDev, result |-> "NotConnected",
                         turn |-> 1 - disc.turn ]
            /\ links' = links
    /\ UNCHANGED << device, calls, nCalls, scanning, ops, nOps, monitors, codec,
                    adapter, screen >>

\* disconnect() with no session: the promise resolves at once.
\* With a session: cancelConnection() is requested and awaited, whatever else
\* is in flight (an earlier disconnect(), a scanAndConnect()).
Disconnect ==
    /\ IF device # NoDev
       THEN /\ links[device].cancels < MaxCancels
            /\ disc' = [ pc |-> "awaiting", dev |-> device, result |-> "none",
                         turn |-> 1 - disc.turn ]
            /\ links' = [ links EXCEPT ![device].cancels = @ + 1,
                                       ![device].pend = @ + 1 ]
       ELSE /\ disc' = [ pc |-> IF Pending THEN "awaiting" ELSE "done",
                         dev |-> NoDev, result |-> "ok",
                         turn |-> 1 - disc.turn ]
            /\ links' = links
    /\ UNCHANGED << device, calls, nCalls, scanning, ops, nOps, monitors, codec,
                    adapter, screen >>

\* A disconnect() still awaits once one on link c has settled.
StillPending(c) ==
    links[c].pend > 1 \/ \E k \in Devs \ { c } : links[k].pend > 0

\* DisconnectSettle without the finally block: this.device is cleared only
\* when cancelConnection() resolved.
DisconnectSettleNoFinally(ok) ==
    /\ \E c \in Devs :
         /\ links[c].pend > 0
         /\ ok => links[c].st = "open"
         /\ links' = [ links EXCEPT ![c].pend = @ - 1,
                                    ![c].st = IF ok THEN "closed" ELSE @ ]
         /\ disc' = [ disc EXCEPT
                        !.pc = IF StillPending(c) THEN "awaiting" ELSE "done",
                        !.dev = c,
                        !.result = IF ok THEN "ok" ELSE "DeviceError" ]
    /\ device' = IF ok THEN NoDev ELSE device
    /\ UNCHANGED << calls, nCalls, scanning, ops, nOps, monitors, codec,
                    adapter, screen >>

\* One awaited cancelConnection() settles; the finally block clears
\* this.device and the promise of that disconnect() settles the same way. A
\* link that is not open any more rejects the request.
DisconnectSettle(ok) ==
    /\ \E c \in Devs :
         /\ links[c].pend > 0
         /\ ok => links[c].st = "open"
         /\ links' = [ links EXCEPT ![c].pend = @ - 1,
                                    ![c].st = IF ok THEN "closed" ELSE @ ]
         /\ disc' = [ disc EXCEPT
                        !.pc = IF StillPending(c) THEN "awaiting" ELSE "done",
                        !.dev = c,
                        !.result = IF ok THEN "ok" ELSE "DeviceError" ]
    /\ device' = NoDev
    /\ UNCHANGED << calls, nCalls, scanning, ops, nOps, monitors, codec,
                    adapter, screen >>


\* ---------------------------------------------------------- facade: plans
\* An operation is the sequence of transport requests its body makes, each
\* awaited before the next statement runs; "throw" is a statement that throws.
Read(chr) == [ t |-> "read", chr |-> chr, payload |-> <<>> ]
Write(chr, payload) == [ t |-> "write", chr |-> chr, payload |-> payload ]
Monitor(chr) == [ t |-> "monitor", chr |-> chr, payload |-> <<>> ]
Throw(err) == [ t |-> "throw", chr |-> err, payload |-> <<>> ]

\* flags.lraN != null is false
Absent == 0 - 1

\* const valid = (v) => { if (v !== 0 && v !== 1) throw ...; return v; }
LraValid(v) == v = 0 \/ v = 1

\* if (flags.lraN != null) await dev.write...(C_LRAN_EN, writeU8(valid(flags.lraN)))
LraItem(chr, v) ==
    IF v = Absent THEN <<>>
    ELSE IF LraValid(v) THEN << Write(chr, writeU8(v)) >>
    ELSE << Throw("ValidationError") >>

writeLraEnables(flags) ==
    LraItem("C_LRA1_EN", flags[1]) \o LraItem("C_LRA2_EN", flags[2])
        \o LraItem("C_LRA3_EN", flags[3])

writeSteps(steps) ==
    IF PackAccepts(steps) THEN << Write("C_STEP_LIST", packStepsToB64(steps)) >>
    ELSE << Throw("ValidationError") >>

writeShipMode(active) == << Write("C_SHIP_MODE", writeU8(active)) >>
writeControl(action) == << Write("C_CTRL", writeU8(action)) >>
writeTotalDurationMs(ms) == << Write("C_TOTAL_MS", writeU16(ms)) >>
writeIntensity(percent) == << Write("C_INTENSITY", writeU8(percent)) >>

readDeviceInfo == << Read("C_HW_VER"), Read("C_FW_VER") >>
readBattery == << Read("C_BATT_LEVEL"), Read("C_BATT_AVG_I"),
                  Read("C_BATT_STATUS"), Read("C_CHG_CONN") >>
readStatus == << Read("C_STATUS"), Read("C_ERROR"), Read("C_REMAIN_MS"),
                 Read("C_INTENSITY"), Read("C_TOTAL_MS") >>
readRemainingTimeMs == << Read("C_REMAIN_MS") >>
readLraEnables == << Read("C_LRA1_EN"), Read("C_LRA2_EN"), Read("C_LRA3_EN") >>
readSteps == << Read("C_STEP_LIST") >>

subscribeBatteryLevel == << Monitor("C_BATT_LEVEL") >>
subscribeChargerStatus == << Monitor("C_CHG_CONN") >>
subscribeStatus == << Monitor("C_STATUS") >>
subscribeRemainingTime == << Monitor("C_REMAIN_MS") >>

\* An argument carries a number, the three LRA flags and a step list; each
\* operation reads the part it takes.
NoArg == [ v |-> 0, flags |-> << Absent, Absent, Absent >>, steps |-> <<>> ]

Plan(kind, arg) ==
    CASE kind = "readDeviceInfo" -> readDeviceInfo
      [] kind = "readBattery" -> readBattery
      [] kind = "readStatus" -> readStatus
      [] kind = "readRemainingTimeMs" -> readRemainingTimeMs
      [] kind = "readLraEnables" -> readLraEnables
      [] kind = "readSteps" -> readSteps
      [] kind = "writeShipMode" -> writeShipMode(arg.v)
      [] kind = "writeControl" -> writeControl(arg.v)
      [] kind = "writeTotalDurationMs" -> writeTotalDurationMs(arg.v)
      [] kind = "writeIntensity" -> writeIntensity(arg.v)
      [] kind = "writeLraEnables" -> writeLraEnables(arg.flags)
      [] kind = "writeSteps" -> writeSteps(arg.steps)
      [] kind = "subscribeBatteryLevel" -> subscribeBatteryLevel
      [] kind = "subscribeChargerStatus" -> subscribeChargerStatus
      [] kind = "subscribeStatus" -> subscribeStatus
      [] kind = "subscribeRemainingTime" -> subscribeRemainingTime

\* The decoder each read's result passes through.
CodecOf(chr) ==
    IF chr \in { "C_HW_VER", "C_FW_VER", "C_ERROR", "C_REMAIN_MS", "C_TOTAL_MS" }
    THEN "u16"
    ELSE IF chr = "C_BATT_AVG_I" THEN "i16"
    ELSE IF chr = "C_STEP_LIST" THEN "steps"
    ELSE "u8"

Decode(chr, value) ==
    CASE CodecOf(chr) = "u16" -> readU16(value)
      [] CodecOf(chr) = "i16" -> readI16(value)
      [] CodecOf(chr) = "u8" -> readU8(value)
      [] CodecOf(chr) = "steps" -> unpackStepsFromB64(value)

\* ------------------------------------------------- facade: the arguments
ReadKinds == { "readDeviceInfo", "readBattery", "readStatus",
               "readRemainingTimeMs", "readLraEnables", "readSteps" }
NumberKinds == { "writeShipMode", "writeControl", "writeTotalDurationMs",
                 "writeIntensity" }

Args(kind) ==
    IF kind \in NumberKinds
    THEN { [ NoArg EXCEPT !.v = n ] :
             n \in { 0, 1, 2, 3, 100, 101, 300, 65535, 70000 } }
    ELSE IF kind = "writeLraEnables"
    THEN { [ NoArg EXCEPT !.flags = << a, b, c >> ] :
             a \in { Absent, 0, 1, 2 }, b \in { Absent, 0, 1, 2 },
             c \in { Absent, 0, 1, 2 } }
    ELSE IF kind = "writeSteps"
    THEN { [ NoArg EXCEPT !.steps = l ] :
             l \in { <<>>,
                     << [ amplitudePct |-> 50, durationMs |-> 1000 ] >>,
                     << [ amplitudePct |-> 50, durationMs |-> 1000 ],
                        [ amplitudePct |-> 100, durationMs |-> 65535 ] >>,
                     << [ amplitudePct |-> 101, durationMs |-> 1 ] >>,
                     << [ amplitudePct |-> 0, durationMs |-> 0 ] >> } }
    ELSE { NoArg }

\* The values the device may hold in a characteristic.
DeviceValues(chr) ==
    CASE CodecOf(chr) = "u8" -> { writeU8(0), writeU8(1) }
      [] CodecOf(chr) = "u16" -> { writeU16(513), writeU16(65535) }
      [] CodecOf(chr) = "i16" -> { writeU16(5), writeU16(65535) }
      [] CodecOf(chr) = "steps" ->
            { NullValue, packStepsToB64(<< [ amplitudePct |-> 50,
                                             durationMs |-> 1000 ] >>),
              writeU16(513) }

\* ----------------------------------------------------- facade: execution
FreeOp == [ kind |-> "none", arg |-> NoArg, dev |-> NoDev, link |-> "none",
            pc |-> 0, wait |-> FALSE, res |-> "none", sent |-> <<>>,
            vals |-> <<>>, n |-> 0 ]

\* Run the body from its next statement to the next await, throw or return.
\* A request is issued on the Device the operation captured; `live` records
\* whether this.device held a session when the request went out.
Advance(op, session) ==
    LET plan == Plan(op.kind, op.arg) IN
    IF op.pc = Len(plan)
    THEN [ op EXCEPT !.res = "ok", !.wait = FALSE ]
    ELSE LET item == plan[op.pc + 1] IN
         IF item.t = "throw"
         THEN [ op EXCEPT !.res = item.chr, !.wait = FALSE ]
         ELSE [ op EXCEPT !.pc = @ + 1,
                          !.wait = item.t # "monitor",
                          !.res = IF item.t = "monitor" THEN "ok" ELSE "running",
                          !.sent = Append(@, [ t |-> item.t, chr |-> item.chr,
                                               payload |-> item.payload,
                                               live |-> session # NoDev ]) ]

\* private requireDev(): Device
requireDev(dev) == dev # NoDev

\* Enter with the argument checked before requireDev(): an operation whose
\* first statement throws on its argument throws that error, session or not.
EnterArgsFirst(op, dev) ==
    LET plan == Plan(op.kind, op.arg) IN
    IF Len(plan) > 0 /\ plan[1].t = "throw"
    THEN [ op EXCEPT !.res = plan[1].chr ]
    ELSE IF dev # NoDev
    THEN Advance([ op EXCEPT !.dev = dev, !.link = links[dev].st ], dev)
    ELSE [ op EXCEPT !.res = "NotConnected" ]

\* The first statement of every operation is const dev = this.requireDev();
\* the body follows. `link` records the state the captured Device's link was
\* in at the call.
Enter(op, dev) ==
    IF requireDev(dev)
    THEN Advance([ op EXCEPT !.dev = dev, !.link = links[dev].st ], dev)
    ELSE [ op EXCEPT !.res = "NotConnected" ]

\* dev.monitorCharacteristicForService(service, chr, listener): the transport
\* holds the listener until its subscription is removed. `due` is what the
\* transport passed to the listener, `got` the values the subscriber's callback
\* was called with, `removes` the calls of the disposer the subscriber was
\* handed (0, 1, or 2 for any more), and `rm` how the last of them ended.
NewMonitor(chr, n, dev) ==
    [ chr |-> chr, n |-> n, dev |-> dev, live |-> TRUE, due |-> <<>>,
      got |-> <<>>, removes |-> 0, rm |-> "none" ]

\* A facade operation is called: requireDev(), then the body up to its first
\* await. The subscribe operations are synchronous and end here.
OpCall(s, kind, arg) ==
    /\ ops[s].kind = "none"
    /\ nOps < MaxOpCalls
    /\ nOps' = nOps + 1
    /\ LET op == [ FreeOp EXCEPT !.kind = kind, !.arg = arg, !.n = nOps + 1 ]
           nxt == Enter(op, device) IN
       /\ ops' = [ ops EXCEPT ![s] = nxt ]
       /\ monitors' = monitors \cup { NewMonitor(nxt.sent[i].chr, nxt.n, nxt.dev) :
                                        i \in { j \in 1..Len(nxt.sent) :
                                                  nxt.sent[j].t = "monitor" } }
    /\ UNCHANGED << device, calls, nCalls, scanning, links, disc, codec,
                    adapter, screen >>

\* The awaited read resolves with the characteristic: its value is decoded and
\* the body runs on.
ReadOk(s, value) ==
    /\ ops[s].wait
    /\ ops[s].sent[ops[s].pc].t = "read"
    /\ links[ops[s].dev].st = "open"
    /\ LET chr == ops[s].sent[ops[s].pc].chr IN
       /\ value \in DeviceValues(chr)
       /\ ops' = [ ops EXCEPT ![s] =
                    IF CodecOf(chr) = "steps" => UnpackAccepts(value)
                    THEN Advance([ @ EXCEPT !.vals =
                                     Append(@, << Decode(chr, value) >>) ],
                                 device)
                    ELSE [ @ EXCEPT !.res = "MalformedPayload", !.wait = FALSE ] ]
    /\ UNCHANGED << device, calls, nCalls, scanning, links, disc, nOps, monitors, codec,
                    adapter, screen >>

\* The awaited write is accepted by the local stack; the body runs on.
WriteOk(s) ==
    /\ ops[s].wait
    /\ ops[s].sent[ops[s].pc].t = "write"
    /\ links[ops[s].dev].st = "open"
    /\ ops' = [ ops EXCEPT ![s] = Advance(@, device) ]
    /\ UNCHANGED << device, calls, nCalls, scanning, links, disc, nOps, monitors, codec,
                    adapter, screen >>

\* The awaited request rejects and the operation issues it once more.
RequestFailRetrying(s) ==
    /\ ops[s].wait
    /\ ops' = [ ops EXCEPT ![s] =
                 IF Len(@.sent) = @.pc
                 THEN [ @ EXCEPT !.sent = Append(@, @[Len(@)]) ]
                 ELSE [ @ EXCEPT !.res = "DeviceError", !.wait = FALSE ] ]
    /\ UNCHANGED << device, calls, nCalls, scanning, links, disc, nOps, monitors, codec,
                    adapter, screen >>

\* The awaited request rejects; the error leaves the operation as it is.
RequestFail(s) ==
    /\ ops[s].wait
    /\ ops' = [ ops EXCEPT ![s] = [ @ EXCEPT !.res = "DeviceError",
                                             !.wait = FALSE ] ]
    /\ UNCHANGED << device, calls, nCalls, scanning, links, disc, nOps, monitors, codec,
                    adapter, screen >>

\* isConnected written with requireDev(): it throws when there is no session.
isConnectedRequiring(s) ==
    /\ ops[s].kind = "none"
    /\ nOps < MaxOpCalls
    /\ nOps' = nOps + 1
    /\ LET op == [ FreeOp EXCEPT !.kind = "isConnected", !.n = nOps + 1 ] IN
       ops' = [ ops EXCEPT ![s] =
                  IF device # NoDev
                  THEN [ op EXCEPT !.dev = device, !.link = links[device].st,
                                   !.pc = 1, !.wait = TRUE, !.res = "running",
                                   !.sent = << [ t |-> "query",
                                                 chr |-> "isConnected",
                                                 payload |-> <<>>,
                                                 live |-> TRUE ] >> ]
                  ELSE [ op EXCEPT !.res = "NotConnected" ] ]
    /\ UNCHANGED << device, calls, nCalls, scanning, links, disc, monitors, codec,
                    adapter, screen >>

\* isConnected(): this.device ? this.device.isConnected() : false. With a
\* session the transport is asked about the Device; without one the answer is
\* false at once.
isConnected(s) ==
    /\ ops[s].kind = "none"
    /\ nOps < MaxOpCalls
    /\ nOps' = nOps + 1
    /\ LET op == [ FreeOp EXCEPT !.kind = "isConnected", !.n = nOps + 1 ] IN
       ops' = [ ops EXCEPT ![s] =
                  IF device # NoDev
                  THEN [ op EXCEPT !.dev = device, !.link = links[device].st,
                                   !.pc = 1, !.wait = TRUE, !.res = "running",
                                   !.sent = << [ t |-> "query",
                                                 chr |-> "isConnected",
                                                 payload |-> <<>>,
                                                 live |-> TRUE ] >> ]
                  ELSE [ op EXCEPT !.res = "false" ] ]
    /\ UNCHANGED << device, calls, nCalls, scanning, links, disc, monitors, codec,
                    adapter, screen >>

\* The transport answers device.isConnected(): whether the link is up.
isConnectedOk(s) ==
    /\ ops[s].wait
    /\ ops[s].sent[ops[s].pc].t = "query"
    /\ ops' = [ ops EXCEPT ![s] =
                  [ @ EXCEPT !.wait = FALSE,
                             !.res = IF links[ops[s].dev].st = "open"
                                     THEN "true" ELSE "false" ] ]
    /\ UNCHANGED << device, calls, nCalls, scanning, links, disc, nOps, monitors,
                    codec, adapter, screen >>

\* The caller has taken the result; the slot is free again.
OpReturn(s) ==
    /\ ops[s].kind # "none"
    /\ ~ops[s].wait
    /\ ops' = [ ops EXCEPT ![s] = FreeOp ]
    /\ UNCHANGED << device, calls, nCalls, scanning, links, disc, nOps, monitors, codec,
                    adapter, screen >>

\* --------------------------------------------------- facade: subscriptions
\* c?.value is truthy: the characteristic carries a non-empty base64 string.
HasValue(value) == value # NullValue /\ value # <<>>

\* The listener each subscribe operation passes to the transport, written
\* without the c?.value guard: every event without an error is decoded and
\* handed on (an absent value decodes as an empty buffer reads, 0).
monitorListenerUnguarded(chr, err, value) ==
    IF ~err
    THEN << IF HasValue(value) THEN Decode(chr, value) ELSE 0 >>
    ELSE <<>>

\* (err, c) => { if (!err && c?.value) cb(readU8(c)); }  (readU16 for
\* C_REMAIN_MS): the calls of cb one event makes, as the sequence of their
\* arguments.
monitorListener(chr, err, value) ==
    IF ~err /\ HasValue(value) THEN << Decode(chr, value) >> ELSE <<>>

\* The listener of m is registered and its device's link is up.
Listening(m) == m.live /\ links[m.dev].st = "open"

\* How many times the transport has called the listeners of the monitors
\* numbered up to k.
RECURSIVE Delivered(_)
Delivered(k) ==
    IF k = 0 THEN 0
    ELSE (IF \E m \in monitors : m.n = k THEN Len((CHOOSE m \in monitors : m.n = k).due) ELSE 0)
           + Delivered(k - 1)

\* The device notifies a characteristic: the transport calls, once, every
\* listener registered for it.
Notify(chr, value) ==
    /\ \E m \in monitors : m.chr = chr /\ Listening(m)
    /\ Delivered(MaxOpCalls)
          + Cardinality({ m \in monitors : m.chr = chr /\ Listening(m) }) <= MaxNotes
    /\ monitors' = { IF m.chr = chr /\ Listening(m)
                     THEN [ m EXCEPT !.due = Append(@, value),
                                     !.got = @ \o monitorListener(chr, FALSE, value) ]
                     ELSE m : m \in monitors }
    /\ UNCHANGED << device, calls, nCalls, scanning, links, disc, ops, nOps,
                    codec,
                    adapter, screen >>

\* The transport ends a monitor whose link is gone: its listener is called
\* with the error and is not called again.
MonitorError(n) ==
    /\ \E m \in monitors : m.n = n /\ m.live /\ links[m.dev].st # "open"
    /\ monitors' = { IF m.n = n
                     THEN [ m EXCEPT !.live = FALSE,
                                     !.got = @ \o monitorListener(m.chr, TRUE, NullValue) ]
                     ELSE m : m \in monitors }
    /\ UNCHANGED << device, calls, nCalls, scanning, links, disc, ops, nOps,
                    codec,
                    adapter, screen >>

\* One more call of a disposer called k times.
Again(k) == IF k = 0 THEN 1 ELSE 2

\* Dispose removing the subscription it was made for and every other one on
\* the same characteristic.
DisposeField(n) ==
    /\ \E m \in monitors : m.n = n
    /\ monitors' = { IF m.n = n
                     THEN [ m EXCEPT !.live = FALSE, !.removes = Again(@), !.rm = "ok" ]
                     ELSE IF m.chr = (CHOOSE x \in monitors : x.n = n).chr
                     THEN [ m EXCEPT !.live = FALSE ]
                     ELSE m : m \in monitors }
    /\ UNCHANGED << device, calls, nCalls, scanning, links, disc, ops, nOps,
                    codec,
                    adapter, screen >>

\* Dispose leaving the listener registered.
DisposeKeep(n) ==
    /\ \E m \in monitors : m.n = n
    /\ monitors' = { IF m.n = n
                     THEN [ m EXCEPT !.removes = Again(@), !.rm = "ok" ]
                     ELSE m : m \in monitors }
    /\ UNCHANGED << device, calls, nCalls, scanning, links, disc, ops, nOps,
                    codec,
                    adapter, screen >>

\* The subscriber calls the disposer subscribe returned, the `remove` of the
\* transport's subscription: the listener of that subscription is removed if
\* it is still registered, and the call returns.
Dispose(n) ==
    /\ \E m \in monitors : m.n = n
    /\ monitors' = { IF m.n = n
                     THEN [ m EXCEPT !.live = FALSE, !.removes = Again(@), !.rm = "ok" ]
                     ELSE m : m \in monitors }
    /\ UNCHANGED << device, calls, nCalls, scanning, links, disc, ops, nOps,
                    codec,
                    adapter, screen >>

\* ------------------------------------------------------ the codec in use
\* The codec is not in use. A use has the caller's input (`from` tells which:
\* a step list, the bytes of a payload or a pair of bytes), the payload in
\* base64, and the results: the steps decoded, the integers read, the error.
NoCodec == [ from |-> "none", pc |-> "none", steps |-> <<>>, bytes |-> <<>>,
             b64 |-> <<>>, out |-> <<>>, u16 |-> 0, i16 |-> 0, res |-> "none" ]

\* Step fields a caller may pass, in and out of the accepted ranges, on
\* either side. (Every value here is an integer: Number.isInteger holds.)
StepValues == { [ amplitudePct |-> a, durationMs |-> d ] :
                  a \in { 0 - 1, 0, 50, 100, 101 },
                  d \in { 0, 1, 1000, 65535, 65536 } }

\* The inputs of the codec: step lists, payloads over the bytes 0, 232 and
\* 255, no payload, and pairs of bytes for the integer readers.
CodecInputs ==
    { [ NoCodec EXCEPT !.from = "steps", !.pc = "input", !.steps = l ] :
        l \in UNION { [ 1..k -> StepValues ] : k \in 0..MaxSteps } }
    \cup { [ NoCodec EXCEPT !.from = "payload", !.pc = "input", !.bytes = d,
                            !.b64 = b64FromBytes(d) ] :
             d \in UNION { [ 1..k -> { 0, 232, 255 } ] : k \in 0..MaxBytes } }
    \cup { [ NoCodec EXCEPT !.from = "payload", !.pc = "input",
                            !.b64 = NullValue ] }
    \cup { [ NoCodec EXCEPT !.from = "pair", !.pc = "input", !.bytes = d,
                            !.b64 = b64FromBytes(d) ] :
             d \in [ 1..2 -> { 0, 1, 2, 127, 128, 255 } ] }

\* packStepsToB64(steps) is called: it throws or returns the payload.
CallPack ==
    /\ codec.from = "steps" /\ codec.pc = "input"
    /\ codec' = IF PackAccepts(codec.steps)
                THEN [ codec EXCEPT !.pc = "packed", !.res = "ok",
                                    !.b64 = packStepsToB64(codec.steps) ]
                ELSE [ codec EXCEPT !.pc = "failed", !.res = "ValidationError" ]
    /\ UNCHANGED << device, calls, nCalls, scanning, links, disc, ops, nOps,
                    monitors, adapter, screen >>

\* unpackStepsFromB64(b64) is called, on a payload of the device or on what
\* packStepsToB64 returned: it throws or returns the steps.
CallUnpack ==
    /\ \/ codec.from = "payload" /\ codec.pc = "input"
       \/ codec.from = "steps" /\ codec.pc = "packed"
    /\ codec' = IF UnpackAccepts(codec.b64)
                THEN [ codec EXCEPT !.pc = "unpacked", !.res = "ok",
                                    !.out = unpackStepsFromB64(codec.b64) ]
                ELSE [ codec EXCEPT !.pc = "failed", !.res = "MalformedPayload" ]
    /\ UNCHANGED << device, calls, nCalls, scanning, links, disc, ops, nOps,
                    monitors, adapter, screen >>

\* readU16(c) and readI16(c) are called on a characteristic of two bytes.
CallRead ==
    /\ codec.from = "pair" /\ codec.pc = "input"
    /\ codec' = [ codec EXCEPT !.pc = "read", !.res = "ok",
                               !.u16 = readU16(codec.b64),
                               !.i16 = readI16(codec.b64) ]
    /\ UNCHANGED << device, calls, nCalls, scanning, links, disc, ops, nOps,
                    monitors, adapter, screen >>

\* ------------------------------------------------------ treatment screen
\* The text of an input field, character by character.
IsDigit(ch) == ch \in { "0", "1", "2", "3", "4", "5", "6", "7", "8", "9" }

DigitValue(ch) ==
    CASE ch = "0" -> 0 [] ch = "1" -> 1 [] ch = "2" -> 2 [] ch = "3" -> 3
      [] ch = "4" -> 4 [] ch = "5" -> 5 [] ch = "6" -> 6 [] ch = "7" -> 7
      [] ch = "8" -> 8 [] ch = "9" -> 9

\* parseInt skips leading white space: every WhiteSpace and LineTerminator
\* character a text of the model can hold, which are the tab, the line feed,
\* U+000B, the form feed, the carriage return, the space, U+00A0, U+1680 and
\* U+FEFF (a string of a module cannot hold U+2000 to U+200A, U+2028,
\* U+2029, U+202F, U+205F or U+3000, so no text of the model has them),
RECURSIVE TrimStart(_)
TrimStart(text) ==
    IF text # <<>> /\ text[1] \in { "\t", "\n", "", "\f", "\r", " ",
                                    " ", " ", "﻿" }
    THEN TrimStart(Tail(text))
    ELSE text

\* takes one sign,
Unsigned(text) ==
    LET t == TrimStart(text) IN
    IF t # <<>> /\ t[1] \in { "-", "+" } THEN Tail(t) ELSE t

\* and reads digits up to the first character that is not one.
RECURSIVE LeadingDigits(_, _)
LeadingDigits(text, acc) ==
    IF text = <<>> \/ ~IsDigit(text[1]) THEN acc
    ELSE LeadingDigits(Tail(text), 10 * acc + DigitValue(text[1]))

\* isNaN(parseInt(text, 10)): no digit where the number should begin.
isNaN(text) == Unsigned(text) = <<>> \/ ~IsDigit(Unsigned(text)[1])

\* parseInt(text, 10), where it is a number.
parseInt(text) ==
    LET t == TrimStart(text) IN
    IF t # <<>> /\ t[1] = "-" THEN 0 - LeadingDigits(Unsigned(text), 0)
    ELSE LeadingDigits(Unsigned(text), 0)

\* What is typed into the fields.
AmplitudeTexts == { << "5", "0" >>, << "\t", "5", "0" >>,
                    << "5", ".", "5" >> }
DurationTexts == { << "1", "0", "0", "0" >>, << "0" >> }
IntensityTexts == { << "1", "0", "0" >>, << "x" >> }
TotalTexts == { << "5", "0", "0", "0" >>, << >>,
                << "7", "0", "0", "0", "0" >> }

\* { id: newId, amplitude: '50', duration: '1000' }
NewStep(id) == [ id |-> id, amplitude |-> << "5", "0" >>,
                 duration |-> << "1", "0", "0", "0" >> ]

\* The screen as first rendered, permissions granted: one step, intensity
\* '100', duration '5000', not connected, not loading. `granted` is
\* permissionsGranted of App ("pending" for null) and `mounted` whether App
\* renders the screen; `client` is whether clientRef.current is set;
\* `connected` is deviceStatus.connected, `shown` its value in the render
\* React committed last and `armed` whether the effects of a connected render
\* are in place (they have run and were not cleaned up); `pc` is the handler
\* between setLoading(true) and its finally block and `op` the slot of the
\* write it awaits (0 for none); `leaving` is a handleDisconnect awaiting
\* disconnect(),
\* `polls` the pollStatus calls awaiting their reads, each the slots of its
\* readBattery() and readDeviceInfo(); `battery`, `info` and `treatment` tell
\* whether batteryLevel, chargerConnected/deviceInfo and treatmentStatus of
\* deviceStatus are defined; `subs` are the subscriptions whose disposers the
\* subscription effect holds; `pressed` is the handler that ran last, `alert`
\* the last Alert shown, `writes` the client write operations the last Send
\* Treatment invoked.
NoScreen == [ granted |-> "yes", mounted |-> TRUE, client |-> TRUE,
              connected |-> FALSE, shown |-> FALSE, armed |-> FALSE,
              pc |-> "idle",
              op |-> 0, leaving |-> FALSE,
              polls |-> {}, battery |-> FALSE, info |-> FALSE,
              treatment |-> FALSE, subs |-> {},
              steps |-> << NewStep(1) >>,
              intensity |-> << "1", "0", "0" >>,
              duration |-> << "5", "0", "0", "0" >>,
              pressed |-> "none", alert |-> "none", writes |-> 0 ]

\* loading as rendered: true from setLoading(true) to the finally block, and
\* until React commits the render of handleScanAndConnect's continuation,
\* which carries setLoading(false) with the connected flag; while it is, the
\* buttons and the inputs are disabled. Nothing is rendered to press before
\* App mounts the screen.
Loading ==
    \/ screen.pc # "idle"
    \/ ~screen.mounted
    \/ screen.connected /\ ~screen.shown

\* Slot s is the k-th free slot: the operations the screen calls take the
\* first slots no operation in flight holds.
NthFree(s, k) ==
    /\ ops[s].kind = "none"
    /\ Cardinality({ x \in 1..(s - 1) : ops[x].kind = "none" }) = k - 1

StepIds == { screen.steps[i].id : i \in 1..Len(screen.steps) }

\* Math.max(...steps.map((s) => parseInt(s.id, 10)), 0)
MaxOf(S) == IF S = {} THEN 0 ELSE CHOOSE m \in S : \A x \in S : x <= m

handleAddStep ==
    /\ ~Loading
    /\ MaxOf(StepIds) + 1 <= MaxStepId
    /\ screen' = [ screen EXCEPT
                     !.steps = Append(@, NewStep(MaxOf(StepIds) + 1)),
                     !.pressed = "add" ]
    /\ UNCHANGED << device, calls, nCalls, scanning, links, disc, ops, nOps,
                    monitors, codec, adapter >>

\* handleRemoveStep without the test of steps.length.
handleRemoveStepAny(id) ==
    /\ ~Loading
    /\ id \in StepIds
    /\ screen' = [ screen EXCEPT !.steps = SelectSeq(@, LAMBDA st : st.id # id),
                                 !.pressed = "remove" ]
    /\ UNCHANGED << device, calls, nCalls, scanning, links, disc, ops, nOps,
                    monitors, codec, adapter >>

handleRemoveStep(id) ==
    /\ ~Loading
    /\ id \in StepIds
    /\ screen' = IF Len(screen.steps) > 1
                 THEN [ screen EXCEPT !.steps = SelectSeq(@, LAMBDA st : st.id # id),
                                      !.pressed = "remove" ]
                 ELSE [ screen EXCEPT !.alert = "Must have at least one step",
                                      !.pressed = "remove" ]
    /\ UNCHANGED << device, calls, nCalls, scanning, links, disc, ops, nOps,
                    monitors, codec, adapter >>

handleUpdateStep(id, field, value) ==
    /\ ~Loading
    /\ id \in StepIds
    /\ screen' = [ screen EXCEPT
                     !.steps = [ i \in 1..Len(@) |->
                                   IF @[i].id = id
                                   THEN [ @[i] EXCEPT ![field] = value ]
                                   ELSE @[i] ],
                     !.pressed = "update" ]
    /\ UNCHANGED << device, calls, nCalls, scanning, links, disc, ops, nOps,
                    monitors, codec, adapter >>

\* onChangeText={setIntensity}
setIntensity(value) ==
    /\ ~Loading
    /\ screen' = [ screen EXCEPT !.intensity = value, !.pressed = "update" ]
    /\ UNCHANGED << device, calls, nCalls, scanning, links, disc, ops, nOps,
                    monitors, codec, adapter >>

\* onChangeText={setDuration}
setDuration(value) ==
    /\ ~Loading
    /\ screen' = [ screen EXCEPT !.duration = value, !.pressed = "update" ]
    /\ UNCHANGED << device, calls, nCalls, scanning, links, disc, ops, nOps,
                    monitors, codec, adapter >>

\* The checks of handleSendTreatment on every step, on the intensity and on
\* the total duration: it throws when one of them is false.
FormAccepted ==
    /\ \A i \in 1..Len(screen.steps) :
         LET st == screen.steps[i] IN
         /\ ~(isNaN(st.amplitude) \/ parseInt(st.amplitude) < 0
                \/ parseInt(st.amplitude) > 100)
         /\ ~(isNaN(st.duration) \/ parseInt(st.duration) < 1
                \/ parseInt(st.duration) > 65535)
    /\ ~(isNaN(screen.intensity) \/ parseInt(screen.intensity) < 0
           \/ parseInt(screen.intensity) > 100)
    /\ ~(isNaN(screen.duration) \/ parseInt(screen.duration) < 1)

\* const parsedSteps: Step[] = steps.map(...)
parsedSteps ==
    [ i \in 1..Len(screen.steps) |->
        [ amplitudePct |-> parseInt(screen.steps[i].amplitude),
          durationMs |-> parseInt(screen.steps[i].duration) ] ]

\* The k-th client write of handleSendTreatment, run to its first await.
SendWrite(k) ==
    Enter(CASE k = 1 -> [ FreeOp EXCEPT !.kind = "writeSteps", !.n = k,
                                        !.arg = [ NoArg EXCEPT !.steps = parsedSteps ] ]
            [] k = 2 -> [ FreeOp EXCEPT !.kind = "writeTotalDurationMs", !.n = k,
                                        !.arg = [ NoArg EXCEPT !.v = parseInt(screen.duration) ] ]
            [] k = 3 -> [ FreeOp EXCEPT !.kind = "writeIntensity", !.n = k,
                                        !.arg = [ NoArg EXCEPT !.v = parseInt(screen.intensity) ] ],
          device)

\* Send Treatment is pressed: the connected flag is tested, the inputs are
\* parsed and checked, and writeSteps is called.
handleSendTreatment ==
    /\ ~Loading
    /\ IF ~screen.shown
       THEN /\ screen' = [ screen EXCEPT !.alert = "Not connected to device",
                                         !.pressed = "send", !.writes = 0 ]
            /\ ops' = ops
       ELSE IF ~FormAccepted
       THEN /\ screen' = [ screen EXCEPT !.alert = "Failed to send treatment",
                                         !.pressed = "send", !.writes = 0 ]
            /\ ops' = ops
       ELSE \E s \in Slots :
              /\ NthFree(s, 1)
              /\ screen' = [ screen EXCEPT !.pc = "sending", !.op = s,
                                           !.pressed = "send", !.writes = 1 ]
              /\ ops' = [ ops EXCEPT ![s] = SendWrite(1) ]
    /\ UNCHANGED << device, calls, nCalls, scanning, links, disc, nOps,
                    monitors, codec, adapter >>

\* The awaited write has settled: the next one is called, or the handler ends
\* in its success alert, or in its catch block.
SendTreatmentOn ==
    /\ screen.pc = "sending"
    /\ ~ops[screen.op].wait
    /\ IF ops[screen.op].res = "ok" /\ screen.writes < 3
       THEN /\ screen' = [ screen EXCEPT !.writes = @ + 1 ]
            /\ ops' = [ ops EXCEPT ![screen.op] = SendWrite(screen.writes + 1) ]
       ELSE /\ screen' = [ screen EXCEPT
                             !.pc = "idle", !.op = 0,
                             !.alert = IF ops[screen.op].res = "ok"
                                       THEN "Treatment sent to device"
                                       ELSE "Failed to send treatment" ]
            /\ ops' = [ ops EXCEPT ![screen.op] = FreeOp ]
    /\ UNCHANGED << device, calls, nCalls, scanning, links, disc, nOps,
                    monitors, codec, adapter >>

\* The monitors subscribeBatteryLevel and subscribeStatus register on Device
\* dev, numbered after it.
ScreenMonitors(dev) ==
    IF dev = NoDev THEN {}
    ELSE { NewMonitor("C_BATT_LEVEL", 2 * dev - 1, dev),
           NewMonitor("C_STATUS", 2 * dev, dev) }

\* setDeviceStatus({ connected: false }): every other field of deviceStatus
\* is dropped. The render stays that of the connected screen until React
\* commits, the effects until their cleanups run after that.
ResetStatus(scr) ==
    [ scr EXCEPT !.connected = FALSE, !.battery = FALSE, !.info = FALSE,
                 !.treatment = FALSE ]

\* pollStatus calls readBattery() and readDeviceInfo() under Promise.all,
\* each running to its first await, in slots a and b.
PollOps(a, b) ==
    [ ops EXCEPT ![a] = Enter([ FreeOp EXCEPT !.kind = "readBattery", !.n = 1 ],
                              device),
                 ![b] = Enter([ FreeOp EXCEPT !.kind = "readDeviceInfo", !.n = 2 ],
                              device) ]

\* An operation of a poll has ended in this way.
Ended(s, res) == ops[s].kind # "none" /\ ~ops[s].wait /\ ops[s].res = res

\* Promise.all of poll p has settled: both operations returned, or one threw.
PollReady(p) ==
    \/ Ended(p[1], "ok") /\ Ended(p[2], "ok")
    \/ \E s \in { p[1], p[2] } :
         ops[s].kind # "none" /\ ~ops[s].wait /\ ops[s].res # "ok"

\* A continuation of the screen is ready to run (that of a poll, of
\* handleScanAndConnect, or of a handler whose awaited write has settled): it
\* runs before the next event of the transport, of a timer or of the user is
\* handled.
Runnable ==
    \/ \E p \in screen.polls : PollReady(p)
    \/ screen.pc = "connecting"
         /\ calls[nCalls].st \in { "resolved", "rejected" }
    \/ screen.op # 0 /\ ~ops[screen.op].wait

\* App rendering the screen whatever requestPermissions() returned.
requestPermissionsIgnored(result) ==
    /\ screen.granted = "pending"
    /\ screen' = [ screen EXCEPT !.granted = IF result THEN "yes" ELSE "no",
                                 !.mounted = TRUE ]
    /\ UNCHANGED << device, calls, nCalls, scanning, links, disc, ops, nOps,
                    monitors, codec, adapter >>

\* requestPermissions() returns to App: the screen is rendered when it
\* returned true. Its effects run later.
requestPermissionsReturns(result) ==
    /\ screen.granted = "pending"
    /\ screen' = [ screen EXCEPT !.granted = IF result THEN "yes" ELSE "no",
                                 !.mounted = result ]
    /\ UNCHANGED << device, calls, nCalls, scanning, links, disc, ops, nOps,
                    monitors, codec, adapter >>

\* The effects of the first render run: clientRef.current is set to a new
\* BuddhaBleClient; deviceStatus.connected is false, so nothing is subscribed
\* and no interval is set.
useEffectMount ==
    /\ screen.mounted
    /\ ~screen.client
    /\ screen' = [ screen EXCEPT !.client = TRUE ]
    /\ UNCHANGED << device, calls, nCalls, scanning, links, disc, ops, nOps,
                    monitors, codec, adapter >>

\* Connect is pressed: setLoading(true) and scanAndConnect({ timeoutMs: 10000 }),
\* which arms the timer and starts the scan for the default prefix. While
\* clientRef.current is null the call throws and the catch block shows its
\* alert.
handleScanAndConnect ==
    /\ ~Loading
    /\ ~screen.shown
    /\ IF ~screen.client
       THEN /\ screen' = [ screen EXCEPT !.alert = "Failed to connect" ]
            /\ UNCHANGED << calls, nCalls, scanning >>
       ELSE /\ nCalls < MaxCalls
            /\ calls' = [ calls EXCEPT ![nCalls + 1] =
                            [ IdleCall EXCEPT !.st = "pending",
                                              !.timer = "armed",
                                              !.timeout = 1,
                                              !.prefix = DefaultPrefix ] ]
            /\ nCalls' = nCalls + 1
            /\ scanning' = [ call |-> nCalls + 1, prefix |-> DefaultPrefix,
                             heard |-> NotHeard ]
            /\ screen' = [ screen EXCEPT !.pc = "connecting" ]
    /\ UNCHANGED << device, links, disc, ops, nOps, monitors, codec, adapter >>

\* scanAndConnect() settles and handleScanAndConnect runs on. Resolved:
\* setDeviceStatus((prev) => ({ ...prev, connected: true })) and the alert.
\* Rejected: the alert of the catch block. React renders the new state
\* later.
handleScanAndConnectSettle ==
    /\ screen.pc = "connecting"
    /\ calls[nCalls].st \in { "resolved", "rejected" }
    /\ screen' = IF calls[nCalls].st = "resolved"
                 THEN [ screen EXCEPT !.pc = "idle", !.connected = TRUE,
                                      !.alert = "Connected to device" ]
                 ELSE [ screen EXCEPT !.pc = "idle",
                                      !.alert = "Failed to connect" ]
    /\ UNCHANGED << device, calls, nCalls, scanning, links, disc, ops, nOps,
                    monitors, codec, adapter >>

\* React commits the render with deviceStatus.connected true, the effects of
\* the render before having run: Disconnect and Send Treatment are there to
\* press. The effects of this render run later.
commitConnected ==
    /\ screen.client
    /\ screen.connected /\ ~screen.shown
    /\ ~screen.armed
    /\ screen' = [ screen EXCEPT !.shown = TRUE ]
    /\ UNCHANGED << device, calls, nCalls, scanning, links, disc, ops, nOps,
                    monitors, codec, adapter >>

\* The effects of the connected render run. The first makes the two
\* subscriptions (subscribing throws, and nothing is held, when the client
\* has no session); the second calls pollStatus() and sets the interval.
useEffectConnected ==
    /\ screen.shown
    /\ ~screen.armed
    /\ \E a, b \in Slots :
         /\ NthFree(a, 1) /\ NthFree(b, 2)
         /\ screen' = [ screen EXCEPT
                          !.armed = TRUE,
                          !.subs = { m.n : m \in ScreenMonitors(device) },
                          !.polls = @ \cup { << a, b >> } ]
         /\ ops' = PollOps(a, b)
    /\ monitors' = monitors \cup ScreenMonitors(device)
    /\ UNCHANGED << device, calls, nCalls, scanning, links, disc, nOps, codec,
                    adapter >>

\* The poll interval fires: it is set from the effect of the connected render
\* to its cleanup, and pollStatus looks at no poll in flight.
pollInterval ==
    /\ screen.mounted
    /\ screen.armed
    /\ \E a, b \in Slots :
         /\ NthFree(a, 1) /\ NthFree(b, 2)
         /\ screen' = [ screen EXCEPT !.polls = @ \cup { << a, b >> } ]
         /\ ops' = PollOps(a, b)
    /\ UNCHANGED << device, calls, nCalls, scanning, links, disc, nOps,
                    monitors, codec, adapter >>

\* Promise.all of a poll settles: its results are merged into deviceStatus,
\* or the catch block logs the error. An operation of the poll that is still
\* awaiting runs on by itself.
pollSettle ==
    \E p \in screen.polls :
      /\ PollReady(p)
      /\ screen' = IF Ended(p[1], "ok") /\ Ended(p[2], "ok")
                   THEN [ screen EXCEPT !.polls = @ \ { p }, !.battery = TRUE,
                                        !.info = TRUE ]
                   ELSE [ screen EXCEPT !.polls = @ \ { p } ]
      /\ ops' = [ s \in Slots |->
                    IF s \in { p[1], p[2] } /\ ~ops[s].wait THEN FreeOp
                    ELSE ops[s] ]
      /\ UNCHANGED << device, calls, nCalls, scanning, links, disc, nOps,
                      monitors, codec, adapter >>

\* The device notifies a characteristic: the transport calls every listener
\* registered for it, those of the screen's subscriptions. With a value, the
\* callback of subscribeBatteryLevel sets batteryLevel and that of
\* subscribeStatus sets the status of treatmentStatus when treatmentStatus is
\* defined; without one the client's listener calls no callback.
onNotification(chr, value) ==
    /\ \E m \in monitors : m.chr = chr /\ Listening(m)
    /\ Delivered(2 * Cardinality(Devs))
          + Cardinality({ m \in monitors : m.chr = chr /\ Listening(m) }) <= MaxNotes
    /\ monitors' = { IF m.chr = chr /\ Listening(m)
                     THEN [ m EXCEPT !.due = Append(@, value),
                                     !.got = @ \o monitorListener(chr, FALSE, value) ]
                     ELSE m : m \in monitors }
    /\ screen' = IF monitorListener(chr, FALSE, value) = << >>
                 THEN screen
                 ELSE IF chr = "C_BATT_LEVEL"
                 THEN [ screen EXCEPT !.battery = TRUE ]
                 ELSE [ screen EXCEPT !.treatment = IF @ THEN TRUE ELSE FALSE ]
    /\ UNCHANGED << device, calls, nCalls, scanning, links, disc, ops, nOps,
                    codec, adapter >>

\* The Treatment Status section, with Start and Stop, is rendered.
StartRendered == screen.mounted /\ screen.treatment

\* Start is pressed: the connected flag is tested, setLoading(true), and
\* writeControl(1) is called.
handleStartTreatment ==
    /\ StartRendered
    /\ ~Loading
    /\ IF ~screen.shown
       THEN /\ screen' = [ screen EXCEPT !.alert = "Not connected to device",
                                         !.pressed = "start" ]
            /\ ops' = ops
       ELSE \E s \in Slots :
              /\ NthFree(s, 1)
              /\ screen' = [ screen EXCEPT !.pc = "starting", !.op = s,
                                           !.pressed = "start" ]
              /\ ops' = [ ops EXCEPT ![s] =
                            Enter([ FreeOp EXCEPT !.kind = "writeControl", !.n = 1,
                                                  !.arg = [ NoArg EXCEPT !.v = 1 ] ],
                                  device) ]
    /\ UNCHANGED << device, calls, nCalls, scanning, links, disc, nOps,
                    monitors, codec, adapter >>

\* The awaited writeControl(1) has settled: the success alert or that of the
\* catch block, and setLoading(false).
handleStartTreatmentSettle ==
    /\ screen.pc = "starting"
    /\ ~ops[screen.op].wait
    /\ screen' = [ screen EXCEPT
                     !.pc = "idle", !.op = 0,
                     !.alert = IF ops[screen.op].res = "ok"
                               THEN "Treatment started"
                               ELSE "Failed to start treatment" ]
    /\ ops' = [ ops EXCEPT ![screen.op] = FreeOp ]
    /\ UNCHANGED << device, calls, nCalls, scanning, links, disc, nOps,
                    monitors, codec, adapter >>

\* Stop is pressed: the connected flag is tested, setLoading(true), and
\* writeControl(0) is called.
handleStopTreatment ==
    /\ StartRendered
    /\ ~Loading
    /\ IF ~screen.shown
       THEN /\ screen' = [ screen EXCEPT !.alert = "Not connected to device",
                                         !.pressed = "stop" ]
            /\ ops' = ops
       ELSE \E s \in Slots :
              /\ NthFree(s, 1)
              /\ screen' = [ screen EXCEPT !.pc = "stopping", !.op = s,
                                           !.pressed = "stop" ]
              /\ ops' = [ ops EXCEPT ![s] =
                            Enter([ FreeOp EXCEPT !.kind = "writeControl", !.n = 1,
                                                  !.arg = [ NoArg EXCEPT !.v = 0 ] ],
                                  device) ]
    /\ UNCHANGED << device, calls, nCalls, scanning, links, disc, nOps,
                    monitors, codec, adapter >>

\* The awaited writeControl(0) has settled: the success alert or that of the
\* catch block, and setLoading(false).
handleStopTreatmentSettle ==
    /\ screen.pc = "stopping"
    /\ ~ops[screen.op].wait
    /\ screen' = [ screen EXCEPT
                     !.pc = "idle", !.op = 0,
                     !.alert = IF ops[screen.op].res = "ok"
                               THEN "Treatment stopped"
                               ELSE "Failed to stop treatment" ]
    /\ ops' = [ ops EXCEPT ![screen.op] = FreeOp ]
    /\ UNCHANGED << device, calls, nCalls, scanning, links, disc, nOps,
                    monitors, codec, adapter >>

\* Disconnect is pressed: client.disconnect() is called and awaited; the
\* handler sets no loading, so the button can be pressed again meanwhile.
\* Without a session disconnect() resolves at once and the handler goes on to
\* setDeviceStatus({ connected: false }) and the alert.
handleDisconnect ==
    /\ ~Loading
    /\ screen.shown
    /\ IF device # NoDev
       THEN /\ links[device].cancels < MaxCancels
            /\ disc' = [ pc |-> "awaiting", dev |-> device, result |-> "none",
                         turn |-> 1 - disc.turn ]
            /\ links' = [ links EXCEPT ![device].cancels = @ + 1,
                                       ![device].pend = @ + 1 ]
            /\ screen' = [ screen EXCEPT !.leaving = TRUE ]
       ELSE /\ disc' = [ pc |-> IF Pending THEN "awaiting" ELSE "done",
                         dev |-> NoDev, result |-> "ok",
                         turn |-> 1 - disc.turn ]
            /\ links' = links
            /\ screen' = [ ResetStatus(screen) EXCEPT
                             !.alert = "Disconnected from device" ]
    /\ UNCHANGED << device, calls, nCalls, scanning, ops, nOps, monitors,
                    codec, adapter >>

\* One awaited disconnect() settles: setDeviceStatus({ connected: false }) and
\* the alert when it resolved, the catch block when it rejected. React
\* renders the new state later.
handleDisconnectSettle(ok) ==
    /\ \E c \in Devs :
         /\ links[c].pend > 0
         /\ ok => links[c].st = "open"
         /\ links' = [ links EXCEPT ![c].pend = @ - 1,
                                    ![c].st = IF ok THEN "closed" ELSE @ ]
         /\ disc' = [ disc EXCEPT
                        !.pc = IF StillPending(c) THEN "awaiting" ELSE "done",
                        !.dev = c,
                        !.result = IF ok THEN "ok" ELSE "DeviceError" ]
         /\ screen' = IF ok
                      THEN [ ResetStatus(screen) EXCEPT
                               !.leaving = StillPending(c),
                               !.alert = "Disconnected from device" ]
                      ELSE [ screen EXCEPT !.leaving = StillPending(c),
                                           !.alert = "Failed to disconnect" ]
    /\ device' = NoDev
    /\ UNCHANGED << calls, nCalls, scanning, ops, nOps, monitors, codec,
                    adapter >>

\* React commits the render with deviceStatus.connected false, the effects of
\* the connected render having run: Connect is there to press. The cleanups
\* of those effects run later.
commitDisconnected ==
    /\ ~screen.connected /\ screen.shown
    /\ screen.armed
    /\ screen' = [ screen EXCEPT !.shown = FALSE ]
    /\ UNCHANGED << device, calls, nCalls, scanning, links, disc, ops, nOps,
                    monitors, codec, adapter >>

\* The cleanups of the effects of the connected render run:
\* unsubscribeBattery() and unsubscribeStatus() where they were set, and
\* clearInterval(pollInterval).
useEffectCleanup ==
    /\ ~screen.shown
    /\ screen.armed
    /\ screen' = [ screen EXCEPT !.armed = FALSE, !.subs = {} ]
    /\ monitors' = { IF m.n \in screen.subs
                     THEN [ m EXCEPT !.live = FALSE, !.removes = Again(@),
                                     !.rm = "ok" ]
                     ELSE m : m \in monitors }
    /\ UNCHANGED << device, calls, nCalls, scanning, links, disc, ops, nOps,
                    codec, adapter >>


\* --------------------------------------------------------- specifications
\* A client as constructed: no session, nothing in flight.
Init ==
    /\ device = NoDev
    /\ calls = [ c \in CallIds |-> IdleCall ]
    /\ nCalls = 0
    /\ scanning = NoScan
    /\ links = [ c \in Devs |-> NoLink ]
    /\ disc = IdleDisc
    /\ ops = [ s \in Slots |-> FreeOp ]
    /\ nOps = 0
    /\ monitors = {}
    /\ codec = NoCodec
    /\ adapter = "PoweredOn"
    /\ screen = NoScreen

\* A client whose first scanAndConnect has resolved (Spec reaches this state).
Connected ==
    /\ device = 1
    /\ calls = [ c \in CallIds |->
                   IF c = 1
                   THEN [ IdleCall EXCEPT !.st = "resolved", !.timer = "cleared",
                                          !.prefix = DefaultPrefix,
                                          !.cb = << [ st |-> "done", name |-> DeviceName ] >>,
                                          !.attempts = 1,
                                          !.matched = DeviceName ]
                   ELSE IdleCall ]
    /\ nCalls = 1
    /\ scanning = NoScan
    /\ links = [ c \in Devs |->
                   IF c = 1 THEN [ NoLink EXCEPT !.st = "open" ] ELSE NoLink ]
    /\ disc = IdleDisc
    /\ ops = [ s \in Slots |-> FreeOp ]
    /\ nOps = 0
    /\ monitors = {}
    /\ codec = NoCodec
    /\ adapter = "PoweredOn"
    /\ screen = NoScreen

\* The connection session: scanAndConnect and disconnect against the transport,
\* among devices without a name and BUDDHA devices.
Next ==
    \/ \E c \in CallIds, t \in 1..MaxTimeout, p \in { DefaultPrefix, << "b", "u" >> } :
          ScanAndConnect(c, t, p)
    \/ \E c \in CallIds : Tick(c)
    \/ \E c \in CallIds : TimerFire(c)
    \/ \E c \in CallIds : ScanError(c)
    \/ \E c \in CallIds, name \in { NoName, DeviceName } :
          scanning.call = c /\ ScanAdvert(c, name)
    \/ \E c \in CallIds : ConnectOk(c)
    \/ \E c \in CallIds : ConnectFail(c)
    \/ \E c \in CallIds : DiscoverOk(c)
    \/ \E c \in CallIds : DiscoverFail(c)
    \/ \E c \in CallIds : LinkLost(c)
    \/ ~Pending /\ Disconnect
    \/ \E ok \in BOOLEAN : DisconnectSettle(ok)

Spec == Init /\ [][Next]_vars

\* The facade under a caller that awaits each operation before the next, with
\* disconnect() and link loss arriving at any moment.
NoOpInFlight == \A s \in Slots : ops[s].kind = "none"

NextFacade ==
    \/ \E kind \in ReadKinds \cup NumberKinds
                       \cup { "subscribeBatteryLevel", "subscribeChargerStatus",
                               "subscribeStatus", "subscribeRemainingTime",
                               "writeLraEnables", "writeSteps" } :
          \E arg \in Args(kind) : NoOpInFlight /\ OpCall(1, kind, arg)
    \/ \E s \in Slots, value \in UNION { DeviceValues(c) : c \in ReadChars } :
          ReadOk(s, value)
    \/ \E s \in Slots : WriteOk(s)
    \/ \E s \in Slots : RequestFail(s)
    \/ \E s \in Slots : OpReturn(s)
    \/ \E c \in CallIds : LinkLost(c)
    \/ ~Pending /\ Disconnect
    \/ \E ok \in BOOLEAN : DisconnectSettle(ok)

SpecFacade == (Init \/ Connected) /\ [][NextFacade]_vars

\* The treatment screen's pollStatus: Promise.all([readBattery(),
\* readDeviceInfo()]) calls both operations in one synchronous step, each
\* running to its first await, readBattery first.
pollStatus(a, b) ==
    /\ a # b
    /\ ops[a].kind = "none" /\ ops[b].kind = "none"
    /\ nOps + 2 <= MaxOpCalls
    /\ nOps' = nOps + 2
    /\ ops' = [ ops EXCEPT
                  ![a] = Enter([ FreeOp EXCEPT !.kind = "readBattery",
                                               !.n = nOps + 1 ], device),
                  ![b] = Enter([ FreeOp EXCEPT !.kind = "readDeviceInfo",
                                               !.n = nOps + 2 ], device) ]
    /\ UNCHANGED << device, calls, nCalls, scanning, links, disc, monitors, codec,
                    adapter, screen >>

\* The facade under the screen's poll, with disconnect() and link loss
\* arriving at any moment.
NextPoll ==
    \/ pollStatus(1, 2)
    \/ \E s \in Slots, value \in UNION { DeviceValues(c) : c \in ReadChars } :
          ReadOk(s, value)
    \/ \E s \in Slots : RequestFail(s)
    \/ \E s \in Slots : OpReturn(s)
    \/ \E c \in CallIds : LinkLost(c)
    \/ Disconnect
    \/ \E ok \in BOOLEAN : DisconnectSettle(ok)

SpecPoll == (Init \/ Connected) /\ [][NextPoll]_vars

\* The subscriptions of a subscriber that calls the subscribe operations and
\* their disposers while the device notifies, the link being lost at any
\* moment. A subscribe operation is synchronous: nothing comes between its
\* call and its return. The subscriber takes the u8 status and the u16
\* remaining time; the other two subscribe operations differ from
\* subscribeStatus in the characteristic only.
NextSub ==
    \/ \E kind \in { "subscribeStatus", "subscribeRemainingTime" } :
          NoOpInFlight /\ OpCall(1, kind, NoArg)
    \/ \E s \in Slots : OpReturn(s)
    \/ \E chr \in { "C_BATT_LEVEL", "C_CHG_CONN", "C_STATUS", "C_REMAIN_MS" } :
          \E value \in DeviceValues(chr) \cup { NullValue } :
             NoOpInFlight /\ Notify(chr, value)
    \/ \E n \in 1..MaxOpCalls : NoOpInFlight /\ MonitorError(n)
    \/ \E n \in 1..MaxOpCalls : NoOpInFlight /\ Dispose(n)
    \/ \E c \in CallIds : NoOpInFlight /\ LinkLost(c)

SpecSub == (Init \/ Connected) /\ [][NextSub]_vars

\* The codec applied to each input, and writeSteps called with the step list
\* on a connected client.
InitCodec ==
    /\ device = 1
    /\ calls = [ c \in CallIds |->
                   IF c = 1
                   THEN [ IdleCall EXCEPT !.st = "resolved", !.timer = "cleared",
                                          !.prefix = DefaultPrefix,
                                          !.cb = << [ st |-> "done", name |-> DeviceName ] >>,
                                          !.attempts = 1,
                                          !.matched = DeviceName ]
                   ELSE IdleCall ]
    /\ nCalls = 1
    /\ scanning = NoScan
    /\ links = [ c \in Devs |->
                   IF c = 1 THEN [ NoLink EXCEPT !.st = "open" ] ELSE NoLink ]
    /\ disc = IdleDisc
    /\ ops = [ s \in Slots |-> FreeOp ]
    /\ nOps = 0
    /\ monitors = {}
    /\ codec \in CodecInputs
    /\ adapter = "PoweredOn"
    /\ screen = NoScreen

NextCodec ==
    \/ CallPack
    \/ CallUnpack
    \/ CallRead
    \/ /\ codec.from = "steps"
       /\ NoOpInFlight
       /\ OpCall(1, "writeSteps", [ NoArg EXCEPT !.steps = codec.steps ])
    \/ \E s \in Slots : WriteOk(s)
    \/ \E s \in Slots : OpReturn(s)

SpecCodec == InitCodec /\ [][NextCodec]_vars

\* One scanAndConnect call among devices of every name, Bluetooth being
\* switched on and off.
NextScan ==
    \/ \E t \in 1..MaxTimeout, p \in { DefaultPrefix, << "b", "u" >> } :
          nCalls = 0 /\ ScanAndConnect(1, t, p)
    \/ \E c \in CallIds : Tick(c)
    \/ \E c \in CallIds : TimerFire(c)
    \/ \E c \in CallIds : ScanError(c)
    \/ \E c \in CallIds,
          name \in { NoName, DeviceName, << "b", "u", "d", "d" >>,
                     << "B", "U", "D" >>, << "X" >> } :
          scanning.call = c /\ ScanAdvert(c, name)
    \/ \E c \in CallIds : ConnectOk(c)
    \/ \E c \in CallIds : ConnectFail(c)
    \/ \E c \in CallIds : DiscoverOk(c)
    \/ \E c \in CallIds : DiscoverFail(c)
    \/ \E state \in { "PoweredOn", "PoweredOff" } : AdapterPower(state)

SpecScan == Init /\ [][NextScan]_vars

\* SpecScan with time passing and a due timer firing: setTimeout runs the
\* callback of a timer that was not cleared.
SpecScanLive ==
    /\ Init
    /\ [][NextScan]_vars
    /\ \A c \in CallIds : WF_vars(Tick(c)) /\ WF_vars(TimerFire(c))

\* One scanAndConnect call whose scan listener is called with every
\* advertisement of two BUDDHA devices and of a device without a name, also
\* while device.connect() of an earlier match is in flight and after it has
\* failed.
NextAdvert ==
    \/ \E t \in 1..MaxTimeout :
          nCalls = 0 /\ ScanAndConnect(1, t, DefaultPrefix)
    \/ \E c \in CallIds : Tick(c)
    \/ \E c \in CallIds : TimerFire(c)
    \/ \E c \in CallIds : ScanError(c)
    \/ \E c \in CallIds :
          \E name \in { NoName, DeviceName, << "B", "U", "D", "D", "2" >> } :
             ScanAdvert(c, name)
    \/ \E c \in CallIds : ConnectOk(c)
    \/ \E c \in CallIds : ConnectFail(c)
    \/ \E c \in CallIds : DiscoverOk(c)
    \/ \E c \in CallIds : DiscoverFail(c)

SpecAdvert == Init /\ [][NextAdvert]_vars

\* isConnected() called at any moment of a session's life.
NextObserve ==
    \/ NoOpInFlight /\ isConnected(1)
    \/ \E s \in Slots : isConnectedOk(s)
    \/ \E s \in Slots : RequestFail(s)
    \/ \E s \in Slots : OpReturn(s)
    \/ \E c \in CallIds : LinkLost(c)
    \/ Disconnect
    \/ \E ok \in BOOLEAN : DisconnectSettle(ok)

SpecObserve == (Init \/ Connected) /\ [][NextObserve]_vars

\* ------------------------------------------- the device behind the link
\* The peripheral is in one of two configurations, `held` of its link: idle
\* with nothing stored (0) or running a treatment (1). Every characteristic
\* has one value in each: characteristic.value of a read while the device is
\* in configuration g.
ValueHeld(chr, g) ==
    CASE CodecOf(chr) = "u8" -> writeU8(g)
      [] CodecOf(chr) = "u16" -> IF g = 0 THEN writeU16(513) ELSE writeU16(65535)
      [] CodecOf(chr) = "i16" -> IF g = 0 THEN writeU16(5) ELSE writeU16(65535)
      [] CodecOf(chr) = "steps" ->
            IF g = 0 THEN NullValue
            ELSE packStepsToB64(<< [ amplitudePct |-> 50, durationMs |-> 1000 ] >>)

\* The device moves to its other configuration while the link is up.
DeviceChange(c) ==
    /\ links[c].st = "open"
    /\ links' = [ links EXCEPT ![c].held = 1 - @ ]
    /\ UNCHANGED << device, calls, nCalls, scanning, disc, ops, nOps, monitors,
                    codec, adapter, screen >>

\* The read answered from a cache filled when the device was idle.
ReadHeldStale(s) ==
    /\ ops[s].wait
    /\ ReadOk(s, ValueHeld(ops[s].sent[ops[s].pc].chr, 0))

\* The awaited read resolves with the value the device holds at that moment.
ReadHeld(s) ==
    /\ ops[s].wait
    /\ ReadOk(s, ValueHeld(ops[s].sent[ops[s].pc].chr, links[ops[s].dev].held))

\* The read operations against a device whose state changes under them.
NextDevice ==
    \/ \E kind \in ReadKinds : NoOpInFlight /\ OpCall(1, kind, NoArg)
    \/ \E s \in Slots : ReadHeld(s)
    \/ \E s \in Slots : RequestFail(s)
    \/ \E s \in Slots : OpReturn(s)
    \/ \E c \in CallIds : DeviceChange(c)

SpecDevice == Connected /\ [][NextDevice]_vars

\* The treatment screen on a connected client, subscribed and with its first
\* poll done.
ScreenConnected ==
    /\ device = 1
    /\ calls = [ c \in CallIds |->
                   IF c = 1
                   THEN [ IdleCall EXCEPT !.st = "resolved", !.timer = "cleared",
                                          !.prefix = DefaultPrefix,
                                          !.cb = << [ st |-> "done", name |-> DeviceName ] >>,
                                          !.attempts = 1,
                                          !.matched = DeviceName ]
                   ELSE IdleCall ]
    /\ nCalls = 1
    /\ scanning = NoScan
    /\ links = [ c \in Devs |->
                   IF c = 1 THEN [ NoLink EXCEPT !.st = "open" ] ELSE NoLink ]
    /\ disc = IdleDisc
    /\ ops = [ s \in Slots |-> FreeOp ]
    /\ nOps = 0
    /\ monitors = ScreenMonitors(1)
    /\ codec = NoCodec
    /\ adapter = "PoweredOn"
    /\ screen = [ NoScreen EXCEPT !.connected = TRUE, !.shown = TRUE,
                                  !.armed = TRUE, !.subs = { 1, 2 },
                                  !.battery = TRUE, !.info = TRUE,
                                  !.alert = "Connected to device" ]

\* The connected screen in use: the form is edited and sent and the device is
\* disconnected. Every step is a task of the JavaScript thread: a handler, a
\* commit, a cleanup or a transport answer runs only when no continuation is
\* runnable. Disconnect is pressed while the client holds a session (the
\* press after a failed disconnect is in NextLeave); the notifications during
\* a send are in NextTreatment.
NextScreen ==
    \/ ~Runnable /\ handleAddStep
    \/ \E id \in 1..MaxStepId : ~Runnable /\ handleRemoveStep(id)
    \/ \E id \in 1..MaxStepId, value \in AmplitudeTexts :
          ~Runnable /\ handleUpdateStep(id, "amplitude", value)
    \/ \E id \in 1..MaxStepId, value \in DurationTexts :
          ~Runnable /\ handleUpdateStep(id, "duration", value)
    \/ \E value \in IntensityTexts : ~Runnable /\ setIntensity(value)
    \/ \E value \in TotalTexts : ~Runnable /\ setDuration(value)
    \/ ~Runnable /\ handleSendTreatment
    \/ SendTreatmentOn
    \/ \E s \in Slots : ~Runnable /\ WriteOk(s)
    \/ \E s \in Slots : ~Runnable /\ RequestFail(s)
    \/ ~Runnable /\ ~Pending /\ device # NoDev /\ handleDisconnect
    \/ \E ok \in BOOLEAN : ~Runnable /\ handleDisconnectSettle(ok)
    \/ ~Runnable /\ commitDisconnected
    \/ ~Runnable /\ useEffectCleanup

SpecScreen == ScreenConnected /\ [][NextScreen]_vars

\* The app from its start: App asks for the permissions and renders the
\* screen, whose first effect creates the client (Connect pressed before it
\* finds no client); the screen connects, subscribes, polls and disconnects,
\* against one device. React's commits and the effects and cleanups that
\* follow them are steps of their own. A connection attempt fails by its
\* deadline, a request once the link is closed or lost; the link is lost, if
\* at all, between the continuation of handleScanAndConnect and the effects
\* of the connected render; one battery notification arrives, if at all,
\* between the commit of the disconnected render and the cleanup of the
\* effects. Connect is pressed and the interval fires while no request is in
\* flight, Connect once the cleanups of the period before have run,
\* Disconnect once the effects are in place and again only after
\* disconnect() has settled.
AppStart ==
    /\ device = NoDev
    /\ calls = [ c \in CallIds |-> IdleCall ]
    /\ nCalls = 0
    /\ scanning = NoScan
    /\ links = [ c \in Devs |-> NoLink ]
    /\ disc = IdleDisc
    /\ ops = [ s \in Slots |-> FreeOp ]
    /\ nOps = 0
    /\ monitors = {}
    /\ codec = NoCodec
    /\ adapter = "PoweredOn"
    /\ screen = [ NoScreen EXCEPT !.granted = "pending", !.mounted = FALSE,
                                  !.client = FALSE ]

NextApp ==
    \/ \E result \in BOOLEAN : requestPermissionsReturns(result)
    \/ useEffectMount
    \/ ~Runnable /\ NoOpInFlight /\ ~screen.armed /\ handleScanAndConnect
    \/ handleScanAndConnectSettle
    \/ ~Runnable /\ commitConnected
    \/ ~Runnable /\ useEffectConnected
    \/ \E c \in CallIds :
          ~Runnable /\ screen.connected /\ ~screen.armed /\ LinkLost(c)
    \/ \E c \in CallIds : ~Runnable /\ Tick(c)
    \/ \E c \in CallIds : ~Runnable /\ TimerFire(c)
    \/ \E c \in CallIds :
          ~Runnable /\ scanning.call = c /\ ScanAdvert(c, DeviceName)
    \/ \E c \in CallIds : ~Runnable /\ ConnectOk(c)
    \/ \E c \in CallIds : ~Runnable /\ DiscoverOk(c)
    \/ ~Runnable /\ NoOpInFlight /\ pollInterval
    \/ pollSettle
    \/ \E s \in Slots : ~Runnable /\ ReadHeld(s)
    \/ \E s \in Slots :
          ~Runnable /\ ops[s].wait /\ links[ops[s].dev].st # "open"
                    /\ RequestFail(s)
    \/ \E s \in Slots :
          ~Runnable /\ (\A p \in screen.polls : s # p[1] /\ s # p[2])
                    /\ OpReturn(s)
    \/ ~Runnable /\ Delivered(2 * Cardinality(Devs)) = 0 /\ ~screen.shown /\ screen.armed
                 /\ onNotification("C_BATT_LEVEL", writeU8(1))
    \/ ~Runnable /\ ~Pending /\ screen.armed /\ handleDisconnect
    \/ \E ok \in BOOLEAN : ~Runnable /\ handleDisconnectSettle(ok)
    \/ ~Runnable /\ commitDisconnected
    \/ ~Runnable /\ useEffectCleanup

SpecApp == AppStart /\ [][NextApp]_vars

\* The connected screen left: Disconnect pressed, again while disconnect() is
\* awaited and before React commits the reset or runs the cleanups, with one
\* notification of either characteristic at any moment, the interval firing
\* when the poll before has settled, and the link failing at any moment.
NextLeave ==
    \/ ~Runnable /\ handleDisconnect
    \/ \E ok \in BOOLEAN : ~Runnable /\ handleDisconnectSettle(ok)
    \/ ~Runnable /\ commitDisconnected
    \/ ~Runnable /\ useEffectCleanup
    \/ ~Runnable /\ screen.polls = {} /\ pollInterval
    \/ pollSettle
    \/ \E s \in Slots : ~Runnable /\ ReadHeld(s)
    \/ \E s \in Slots :
          ~Runnable /\ ops[s].wait /\ links[ops[s].dev].st # "open"
                    /\ RequestFail(s)
    \/ \E s \in Slots :
          ~Runnable /\ (\A p \in screen.polls : s # p[1] /\ s # p[2])
                    /\ OpReturn(s)
    \/ \E chr \in { "C_BATT_LEVEL", "C_STATUS" } :
          \E value \in { writeU8(1), NullValue } :
             ~Runnable /\ Delivered(2 * Cardinality(Devs)) = 0
                       /\ onNotification(chr, value)
    \/ \E c \in CallIds : ~Runnable /\ LinkLost(c)

SpecLeave == ScreenConnected /\ [][NextLeave]_vars

\* The controls of the connected screen in use: Send Treatment, Start and
\* Stop, with the interval firing whatever is in flight, so that polls
\* overlap each other and the writes. A write of a handler is accepted or
\* rejected, the reads of the polls are answered, and the device notifies
\* once, at any moment. Start and Stop are there to press only once
\* treatmentStatus is defined.
NextTreatment ==
    \/ ~Runnable /\ handleSendTreatment
    \/ SendTreatmentOn
    \/ ~Runnable /\ handleStartTreatment
    \/ handleStartTreatmentSettle
    \/ ~Runnable /\ handleStopTreatment
    \/ handleStopTreatmentSettle
    \/ ~Runnable /\ pollInterval
    \/ pollSettle
    \/ \E s \in Slots : ~Runnable /\ ReadHeld(s)
    \/ \E s \in Slots : ~Runnable /\ WriteOk(s)
    \/ ~Runnable /\ screen.op # 0 /\ RequestFail(screen.op)
    \/ \E chr \in { "C_BATT_LEVEL", "C_STATUS" } :
          \E value \in { writeU8(1), NullValue } :
             ~Runnable /\ Delivered(2 * Cardinality(Devs)) = 0
                       /\ onNotification(chr, value)

SpecTreatment == ScreenConnected /\ [][NextTreatment]_vars

\* ------------------------------------------------------------------ claims
\* A facade operation starts in this step in slot s.
Invoked(s) == ops[s].kind = "none" /\ ops'[s].kind # "none"

\* The argument of a facade operation is outside what the operation accepts.
BadArgument(op) ==
    \/ op.kind = "writeSteps" /\ ~PackAccepts(op.arg.steps)
    \/ op.kind = "writeLraEnables"
         /\ \E i \in 1..3 : op.arg.flags[i] # Absent /\ ~LraValid(op.arg.flags[i])

\* C1: an operation called while this.device is null fails with 'Not
\* connected', whatever its argument, sends no request to the transport and
\* registers no monitor.
C1_NotConnectedFirst ==
    [][ \A s \in Slots :
          (Invoked(s) /\ device = NoDev)
            => /\ ops'[s].res = "NotConnected"
               /\ ops'[s].sent = <<>>
               /\ monitors' = monitors ]_vars

\* C1 witness: with no session, a write whose argument is invalid as well has
\* failed with 'Not connected'.
C1_Witness ==
    \E s \in Slots :
      /\ device = NoDev
      /\ ops[s].dev = NoDev
      /\ ops[s].res = "NotConnected"
      /\ BadArgument(ops[s])

\* C2 (as claimed): once a scanAndConnect call is rejected, this.device is null
\* for as long as no later call has resolved.
C2_FailureLeavesNoSession ==
    \A c \in CallIds :
      (/\ calls[c].st = "rejected"
       /\ \A k \in CallIds : k > c => calls[k].st # "resolved")
        => device = NoDev

\* C3: a call whose deadline is reached with no matching advertisement is
\* rejected with 'Scan timeout'; that rejection never comes before timeoutMs
\* has elapsed, and the call's scan is not active once it is rejected.
C3_ScanTimeout ==
    [][ \A c \in CallIds :
          /\ (calls'[c].timer = "fired" /\ calls'[c].cb = << >>)
                => calls'[c].st = "rejected" /\ calls'[c].err = "ScanTimeout"
          /\ calls'[c].err = "ScanTimeout"
                => calls'[c].timer = "fired" /\ scanning'.call # c
          /\ (calls[c].err # "ScanTimeout" /\ calls'[c].err = "ScanTimeout")
                => /\ calls[c].timeout > 0
                   /\ calls[c].elapsed >= calls[c].timeout ]_vars

\* C3 witness: a call has timed out with nothing matched, and no scan is
\* active.
C3_Witness ==
    \E c \in CallIds :
      /\ calls[c].st = "rejected"
      /\ calls[c].err = "ScanTimeout"
      /\ calls[c].cb = << >>
      /\ scanning = NoScan

\* disconnect() settles in this step.
DisconnectReturns ==
    \/ \E c \in CallIds : links'[c].pend < links[c].pend
    \/ disc'.turn # disc.turn /\ device = NoDev

\* C4: when disconnect() returns or throws, this.device is null; if there was
\* a session, cancelConnection() was requested on it.
C4_DisconnectClears ==
    [][ DisconnectReturns
          => /\ device' = NoDev
             /\ disc'.dev # NoDev => links'[disc'.dev].cancels >= 1 ]_vars

\* C4 witness: disconnect() has thrown because cancelConnection() failed on a
\* session, and the session is gone.
C4_Witness ==
    /\ disc.pc = "done"
    /\ disc.result = "DeviceError"
    /\ disc.dev # NoDev
    /\ device = NoDev

\* C5: disconnect() with no session resolves without raising and changes
\* nothing; over calls made in sequence, each after the one before has
\* settled, a link's termination is requested at most once.
C5_DisconnectIdempotent ==
    [][ /\ (disc'.turn # disc.turn /\ device = NoDev)
            => /\ disc'.result = "ok"
               /\ ~Pending => disc'.pc = "done"
               /\ UNCHANGED << device, calls, nCalls, scanning, links, ops,
                               nOps, monitors, codec,
                    adapter >>
        /\ \A c \in CallIds :
             (links'[c].cancels > links[c].cancels /\ ~Pending)
               => links[c].cancels = 0 ]_vars

\* C5 witness: a second disconnect() has returned after one that ended a
\* session.
C5_Witness ==
    /\ disc.pc = "done"
    /\ disc.result = "ok"
    /\ disc.dev = NoDev
    /\ \E c \in CallIds : links[c].cancels = 1

\* The declared domain of each single-field write.
InDomain(kind, v) ==
    CASE kind = "writeTotalDurationMs" -> v >= 0 /\ v <= 65535
      [] kind = "writeIntensity" -> v >= 0 /\ v <= 100
      [] kind = "writeControl" -> v >= 0 /\ v <= 2
      [] kind = "writeShipMode" -> v >= 0 /\ v <= 1

\* C6 (as claimed): a single-field write on a connected client with a value
\* outside the field's domain fails with a validation error and sends no write.
C6_WriteValidates ==
    \A s \in Slots :
      (/\ ops[s].kind \in NumberKinds
       /\ ops[s].dev # NoDev
       /\ ~InDomain(ops[s].kind, ops[s].arg.v))
        => ops[s].res = "ValidationError" /\ ops[s].sent = <<>>

\* C7 (as claimed): writeLraEnables with any supplied flag other than 0 or 1
\* fails having sent no write at all.
C7_LraValidatesAll ==
    \A s \in Slots :
      (/\ ops[s].kind = "writeLraEnables"
       /\ ops[s].dev # NoDev
       /\ BadArgument(ops[s]))
        => ops[s].res = "ValidationError" /\ ops[s].sent = <<>>

\* C8 (as claimed): no request goes to the transport while this.device is
\* null.
C8_NoRequestWithoutSession ==
    \A s \in Slots : \A i \in 1..Len(ops[s].sent) : ops[s].sent[i].live

\* C9 (as claimed): of two operations in flight, the one invoked first sends
\* none of its requests after the other has sent one.
C9_SerializedInIssueOrder ==
    [][ \A s, t \in Slots :
          (/\ ops'[s].n = ops[s].n
           /\ Len(ops'[s].sent) > Len(ops[s].sent)
           /\ ops[t].kind # "none"
           /\ ops[s].n < ops[t].n)
            => ops[t].sent = <<>> ]_vars

\* The body of the operation begins with a request to the transport.
FirstIsRequest(plan) == Len(plan) > 0 /\ plan[1].t # "throw"

\* C10 (as claimed): an operation called after the link of the session was
\* lost, whose body begins with a request, fails with 'Not connected' and
\* sends nothing.
C10_LinkLossClearsSession ==
    \A s \in Slots :
      (/\ ops[s].kind # "none"
       /\ ops[s].link = "lost"
       /\ FirstIsRequest(Plan(ops[s].kind, ops[s].arg)))
        => ops[s].res = "NotConnected" /\ ops[s].sent = <<>>

\* The monitor numbered n after the step.
MonAfter(n) == CHOOSE m \in monitors' : m.n = n

\* The transport passes a notification to the listener of m in this step.
Notified(m) == Len(MonAfter(m.n).due) = Len(m.due) + 1

\* The notification passed to the listener of m in this step.
Notification(m) == MonAfter(m.n).due[Len(m.due) + 1]

\* The disposer of m is called in this step.
Disposed(m) == MonAfter(m.n).removes = m.removes + 1

\* C11 (as claimed): when the device notifies a characteristic, the callback of
\* every subscription registered for it is called once more; and the call of
\* one subscription's disposer changes no other subscription.
C11_SiblingsAllNotified ==
    [][ \A a \in monitors :
          /\ Notified(a)
                => \A b \in monitors :
                     (b.chr = a.chr /\ Listening(b))
                       => Len(MonAfter(b.n).got) = Len(b.got) + 1
          /\ Disposed(a)
                => \A b \in monitors : b.n # a.n => MonAfter(b.n) = b ]_vars

\* C11 (amended): when the device notifies a characteristic with a value, the
\* callback of every subscription registered for it is called with that value
\* decoded, whatever was disposed before; and the call of one subscription's
\* disposer changes no other subscription.
C11_SiblingsIndependent ==
    [][ \A a \in monitors :
          /\ (Notified(a) /\ HasValue(Notification(a)))
                => \A b \in monitors :
                     (b.chr = a.chr /\ Listening(b))
                       => MonAfter(b.n).got
                            = Append(b.got, Decode(b.chr, Notification(a)))
          /\ Disposed(a)
                => \A b \in monitors : b.n # a.n => MonAfter(b.n) = b ]_vars

\* C11 witness: of two subscriptions to one characteristic that both received
\* a notification, one was disposed and the other has received a later one.
C11_Witness ==
    \E a, b \in monitors :
      /\ a.n # b.n /\ a.chr = b.chr
      /\ a.removes >= 1 /\ ~a.live /\ b.live
      /\ Len(a.got) >= 1
      /\ Len(b.got) > Len(a.got)

\* C12: once its disposer was called, a subscription's listener is not
\* registered and its callback is not called again; a further call of the
\* disposer returns normally and changes nothing (but the count of the calls).
C12_DisposerUnregistersOnce ==
    [][ \A m \in monitors :
          /\ (m.removes >= 1 \/ Disposed(m))
                => /\ ~MonAfter(m.n).live
                   /\ MonAfter(m.n).got = m.got
                   /\ MonAfter(m.n).due = m.due
          /\ Disposed(m) => MonAfter(m.n).rm = "ok"
          /\ (m.removes >= 1 /\ Disposed(m))
                => /\ monitors' = (monitors \ { m })
                                    \cup { [ m EXCEPT !.removes = Again(@) ] }
                   /\ UNCHANGED << device, calls, nCalls, scanning, links, disc,
                                   ops, nOps >> ]_vars

\* C12 witness: a disposer was called twice on a subscription that had received
\* a notification, while another listener on the same characteristic went on
\* receiving.
C12_Witness ==
    \E m, o \in monitors :
      /\ m.removes = 2 /\ Len(m.got) = 1
      /\ o.n # m.n /\ o.chr = m.chr /\ Len(o.due) > Len(m.due)
      /\ links[m.dev].st = "open"

\* The decoded values of the notifications that carry one, in order.
DecodedValues(chr, due) ==
    LET valued == SelectSeq(due, HasValue)
    IN [ i \in 1..Len(valued) |-> Decode(chr, valued[i]) ]

\* C13 (as claimed): a subscription's callback has been called exactly once,
\* with the decoded value, for every notification passed to its listener, in
\* order.
C13_EveryNotificationOnce ==
    \A m \in monitors :
      /\ Len(m.got) = Len(m.due)
      /\ \A i \in 1..Len(m.due) :
            HasValue(m.due[i]) => m.got[i] = Decode(m.chr, m.due[i])

\* C13 (amended): a subscription's callback has been called exactly once, with
\* the decoded value, for every notification carrying a non-empty value that
\* was passed to its listener, in order, and not for any other event.
C13_EveryValueOnce ==
    \A m \in monitors : m.got = DecodedValues(m.chr, m.due)

\* C13 witness: a callback has received two different values in the order of
\* their notifications, a notification without a value having come between
\* subscribe and dispose as well.
C13_Witness ==
    \E m \in monitors :
      /\ Len(m.due) = 3 /\ ~HasValue(m.due[2])
      /\ Len(m.got) = 2 /\ m.got[1] # m.got[2]
      /\ m.got[1] = Decode(m.chr, m.due[1])
      /\ m.removes = 1

\* A step within the bounds of the Step type: amplitudePct 0..100, durationMs
\* 1..65535.
StepInBounds(st) ==
    /\ st.amplitudePct \in 0..100
    /\ st.durationMs \in 1..65535

\* A step list of at least one step, each within bounds.
ValidStepList(l) == Len(l) >= 1 /\ \A i \in 1..Len(l) : StepInBounds(l[i])

\* The example of the specification.
ExampleSteps == << [ amplitudePct |-> 50, durationMs |-> 1000 ],
                   [ amplitudePct |-> 100, durationMs |-> 65535 ] >>

\* C14: a valid step list is encoded, and decoding what packStepsToB64
\* returned gives the list back: same length, order and field values.
C14_StepsRoundTrip ==
    (codec.from = "steps" /\ ValidStepList(codec.steps))
      => /\ codec.pc \in { "input", "packed", "unpacked" }
         /\ codec.pc = "unpacked" => codec.out = codec.steps

\* C14 witness: a list of two different steps, one with the largest duration,
\* has been encoded and decoded.
C14_Witness ==
    /\ codec.from = "steps" /\ codec.pc = "unpacked"
    /\ Len(codec.steps) = 2
    /\ codec.steps[1] # codec.steps[2]
    /\ codec.steps[2].durationMs = 65535
    /\ Len(codec.out) = 2

\* C15: packStepsToB64 throws, returning no payload, for the empty list and for
\* a list with any amplitudePct outside 0..100 or any durationMs outside
\* 1..65535; and writeSteps with such a list on a connected client throws the
\* same way having sent no write.
C15_EncodeValidates ==
    /\ (codec.from = "steps" /\ ~ValidStepList(codec.steps) /\ codec.pc # "input")
          => /\ codec.pc = "failed"
             /\ codec.res = "ValidationError"
             /\ codec.b64 = <<>>
    /\ \A s \in Slots :
          (/\ ops[s].kind = "writeSteps"
           /\ ops[s].dev # NoDev
           /\ ~ValidStepList(ops[s].arg.steps))
            => ops[s].res = "ValidationError" /\ ops[s].sent = <<>>

\* C15 witness: a list whose only fault is a durationMs of 0 has been refused
\* by packStepsToB64 and by writeSteps on a connected client.
C15_Witness ==
    /\ codec.from = "steps" /\ codec.pc = "failed"
    /\ Len(codec.steps) = 2
    /\ StepInBounds(codec.steps[1])
    /\ codec.steps[2].durationMs = 0 /\ codec.steps[2].amplitudePct = 50
    /\ \E s \in Slots : /\ ops[s].kind = "writeSteps"
                        /\ ops[s].dev # NoDev
                        /\ ops[s].res = "ValidationError"

\* C16: unpackStepsFromB64 on a payload whose byte length is not a multiple of
\* 3 throws the malformed-payload error and returns no steps; on a payload of
\* 3k bytes it returns exactly k steps.
C16_DecodeChecksLength ==
    (codec.from = "payload" /\ codec.pc # "input")
      => IF Len(codec.bytes) % 3 # 0
         THEN /\ codec.pc = "failed"
              /\ codec.res = "MalformedPayload"
              /\ codec.out = <<>>
         ELSE /\ codec.pc = "unpacked"
              /\ Len(codec.out) = Len(codec.bytes) \div 3

\* C16 witness: a payload of four bytes has been refused.
C16_Witness ==
    /\ codec.from = "payload" /\ codec.pc = "failed"
    /\ Len(codec.bytes) = 4
    /\ codec.res = "MalformedPayload"

\* C17: the bytes of the payload packStepsToB64 returns are 3 per step, step i
\* at [amplitudePct, durationMs mod 256, durationMs div 256]; the example list
\* gives [50, 0xE8, 0x03, 100, 0xFF, 0xFF].
C17_StepRecordLayout ==
    (codec.from = "steps" /\ codec.pc \in { "packed", "unpacked" })
      => LET d == bytesFromB64(codec.b64) IN
         /\ Len(d) = 3 * Len(codec.steps)
         /\ \A i \in 1..Len(codec.steps) :
               /\ d[3 * i - 2] = codec.steps[i].amplitudePct
               /\ d[3 * i - 1] = codec.steps[i].durationMs % 256
               /\ d[3 * i] = codec.steps[i].durationMs \div 256
         /\ codec.steps = ExampleSteps => d = << 50, 232, 3, 100, 255, 255 >>

\* C17 witness: the example list has been encoded.
C17_Witness ==
    /\ codec.from = "steps" /\ codec.pc = "packed"
    /\ codec.steps = ExampleSteps
    /\ codec.b64 # <<>>

\* C18: for a characteristic of bytes [b0, b1], readU16 returns b0 + 256*b1,
\* within 0..65535, and readI16 that value as two's complement (v below
\* 0x8000, v - 0x10000 from there on); [0x01, 0x02] reads 513 and
\* [0xFF, 0xFF] reads -1.
C18_LittleEndianReads ==
    (codec.from = "pair" /\ codec.pc = "read")
      => LET v == codec.bytes[1] + 256 * codec.bytes[2] IN
         /\ codec.u16 = v
         /\ codec.u16 \in 0..65535
         /\ codec.i16 = IF v < 32768 THEN v ELSE v - 65536
         /\ codec.bytes = << 1, 2 >> => codec.u16 = 513
         /\ codec.bytes = << 255, 255 >> => codec.i16 = 0 - 1

\* C18 witness: the bytes [0xFF, 0xFF] have been read, as 65535 and as -1.
C18_Witness ==
    /\ codec.from = "pair" /\ codec.pc = "read"
    /\ codec.bytes = << 255, 255 >>
    /\ codec.u16 = 65535
    /\ codec.i16 = 0 - 1

\* C19: this.device is assigned only when connect() and then the enumeration
\* of the matched device have completed; the promise resolves only in a step
\* that leaves this.device set; and no scan of the call is active while its
\* connect() or enumeration runs.
C19_SessionAfterEnumeration ==
    [][ \A c \in CallIds :
          /\ \A i \in 1..MaxMatches :
                (device' = DevOf(c, i) /\ device # DevOf(c, i))
                  => /\ i \in RunsAt(calls[c], "discovering")
                     /\ i \in RunsAt(calls'[c], "done")
                     /\ links[DevOf(c, i)].st = "open"
          /\ (calls'[c].st = "resolved" /\ calls[c].st # "resolved")
                => \E i \in RunsAt(calls'[c], "done") : device' = DevOf(c, i)
          /\ (RunsAt(calls'[c], "connecting")
                 \cup RunsAt(calls'[c], "discovering")) # {}
                => scanning'.call # c ]_vars

\* C19 witness: a call has resolved with the session present, its scan
\* stopped, connect() and the enumeration done.
C19_Witness ==
    \E c \in CallIds :
      /\ calls[c].st = "resolved"
      /\ calls[c].cb = << [ st |-> "done", name |-> DeviceName ] >>
      /\ device = c
      /\ links[c].st = "open"
      /\ scanning = NoScan
      /\ nCalls = c

\* C20: a scanAndConnect call attempts connect() on at most one device,
\* whatever advertisements its scan listener is called with while the first
\* connect() is in flight or after it failed.
C20_OneDeviceAttempted ==
    \A c \in CallIds :
      \A i, j \in 1..Len(calls[c].cb) : calls[c].cb[i].name = calls[c].cb[j].name

\* A character with its case folded.
Fold(ch) ==
    CASE ch = "B" -> "b"
      [] ch = "U" -> "u"
      [] ch = "D" -> "d"
      [] OTHER -> ch

\* namePrefix is a prefix of name, case ignored.
MatchesIgnoringCase(name, prefix) ==
    /\ name # NoName
    /\ Len(prefix) <= Len(name)
    /\ \A i \in 1..Len(prefix) : Fold(name[i]) = Fold(prefix[i])

\* The scan listener of call c is called with a device in this step.
Advertised(c) ==
    /\ scanning.call = c
    /\ \/ calls'[c].attempts # calls[c].attempts
       \/ scanning'.call = c /\ scanning'.heard # scanning.heard

\* The name of the device the listener of call c is called with in this step.
AdvertisedName(c) ==
    IF calls'[c].attempts # calls[c].attempts
    THEN calls'[c].matched ELSE scanning'.heard

\* C21 (as claimed): the listener's call with a device starts a connect exactly
\* when namePrefix is a prefix of the device's name, case ignored; a device
\* without a name never starts one.
C21_PrefixIgnoringCase ==
    [][ \A c \in CallIds :
          Advertised(c)
            => /\ (calls'[c].attempts = calls[c].attempts + 1)
                    <=> MatchesIgnoringCase(AdvertisedName(c), scanning.prefix)
               /\ AdvertisedName(c) = NoName
                    => calls'[c].attempts = calls[c].attempts ]_vars

\* C22 (as claimed): a scan is started only while the adapter reports
\* PoweredOn, so that a call made while it does not has started no scan.
C22_ScanNeedsPoweredAdapter ==
    [][ \A c \in CallIds :
          (scanning'.call = c /\ scanning.call # c)
            => adapter = "PoweredOn" ]_vars

\* isConnected() is called in slot s in this step.
Observed(s) == Invoked(s) /\ ops'[s].kind = "isConnected"

\* C23 (as claimed): isConnected() sends nothing to the transport and changes
\* no state of the client, with or without a session, and answers false
\* without one.
C23_IsConnectedPure ==
    [][ \A s \in Slots :
          Observed(s)
            => /\ ops'[s].sent = <<>>
               /\ UNCHANGED << device, calls, scanning, links, disc, monitors >>
               /\ device = NoDev => ops'[s].res = "false" ]_vars

\* C23 (amended): isConnected() changes no state of the client and sends no
\* read, write or monitor; without a session it answers false at once, having
\* asked nothing; with one it asks the transport whether the Device is
\* connected, and answers true only if the link is up.
C23_IsConnectedObserves ==
    [][ \A s \in Slots :
          /\ Observed(s)
                => /\ UNCHANGED << device, calls, scanning, links, disc, monitors >>
                   /\ \A i \in 1..Len(ops'[s].sent) : ops'[s].sent[i].t = "query"
                   /\ device = NoDev
                        => ops'[s].res = "false" /\ ops'[s].sent = <<>>
                   /\ device # NoDev => Len(ops'[s].sent) = 1
          /\ (ops[s].kind = "isConnected" /\ ops'[s].kind = "isConnected")
                => /\ ops'[s].sent = ops[s].sent
                   /\ (ops'[s].res = "true" /\ ops[s].res # "true")
                        => links[ops[s].dev].st = "open" ]_vars

\* C23 witness: after a disconnect, isConnected() has answered false having
\* asked nothing.
C23_Witness ==
    \E s \in Slots :
      /\ ops[s].kind = "isConnected"
      /\ ops[s].dev = NoDev
      /\ ops[s].res = "false"
      /\ ops[s].sent = <<>>
      /\ disc.pc = "done"

\* The operations that read several characteristics into one record.
AggregateKinds == { "readStatus", "readBattery", "readLraEnables",
                    "readDeviceInfo" }

\* C24: an aggregate read issues all its reads concurrently, so from the call
\* on every one of its reads is with the transport, and it returns a record
\* only when all of them have completed.
C24_AggregateReadsConcurrent ==
    \A s \in Slots :
      (ops[s].kind \in AggregateKinds /\ ops[s].dev # NoDev)
        => /\ Len(ops[s].sent) = Len(Plan(ops[s].kind, ops[s].arg))
           /\ ops[s].res = "ok"
                => Len(ops[s].vals) = Len(Plan(ops[s].kind, ops[s].arg))

\* The record an aggregate read would return had all its characteristics been
\* read while the device was in configuration g.
Snapshot(kind, g) ==
    LET plan == Plan(kind, NoArg) IN
    [ i \in 1..Len(plan) |-> << Decode(plan[i].chr, ValueHeld(plan[i].chr, g)) >> ]

\* C25: the record of an aggregate read is put together field by field, each
\* field being the value the device held when its own read completed; the
\* fields already read are kept as they were when the device changes, so the
\* record can mix values of different device states.
C25_RecordReadFieldByField ==
    [][ \A s \in Slots :
          (ops[s].kind \in AggregateKinds /\ ops'[s].n = ops[s].n)
            => /\ Len(ops'[s].vals) >= Len(ops[s].vals)
               /\ SubSeq(ops'[s].vals, 1, Len(ops[s].vals)) = ops[s].vals
               /\ Len(ops'[s].vals) > Len(ops[s].vals)
                    => /\ Len(ops'[s].vals) = Len(ops[s].vals) + 1
                       /\ ops'[s].vals[Len(ops'[s].vals)] =
                            << Decode(ops[s].sent[ops[s].pc].chr,
                                      ValueHeld(ops[s].sent[ops[s].pc].chr,
                                                links[ops[s].dev].held)) >> ]_vars

\* C25 witness: readStatus has returned a record that is the device's state
\* in neither of the configurations it was ever in.
C25_Witness ==
    \E s \in Slots :
      /\ ops[s].kind = "readStatus"
      /\ ops[s].res = "ok"
      /\ \A g \in { 0, 1 } : ops[s].vals # Snapshot("readStatus", g)

\* C26: in writeLraEnables with every supplied flag valid, once the operation
\* has ended the write of every supplied flag has been dispatched, whether or
\* not another flag's write failed, and nothing but those writes was sent (a
\* failed write undoes no earlier one).
C26_LraWritesIndependent ==
    \A s \in Slots :
      LET plan == Plan(ops[s].kind, ops[s].arg) IN
      (/\ ops[s].kind = "writeLraEnables"
       /\ ops[s].dev # NoDev
       /\ ~BadArgument(ops[s])
       /\ ~ops[s].wait)
        => /\ Len(ops[s].sent) = Len(plan)
           /\ \A i \in 1..Len(ops[s].sent) :
                /\ ops[s].sent[i].t = "write"
                /\ ops[s].sent[i].chr = plan[i].chr
                /\ ops[s].sent[i].payload = plan[i].payload

\* The operations that read or write characteristics.
RequestKinds == ReadKinds \cup NumberKinds \cup { "writeLraEnables", "writeSteps" }

\* C27: a facade operation never retries. What an operation has sent is its
\* reads or writes in order, each once; when the transport rejects one, the
\* operation ends with the transport's error in that step, and sends nothing
\* after it.
C27_NoRetry ==
    [][ \A s \in Slots :
          LET plan == Plan(ops'[s].kind, ops'[s].arg) IN
          /\ ops'[s].kind \in RequestKinds
                => /\ Len(ops'[s].sent) <= Len(plan)
                   /\ \A i \in 1..Len(ops'[s].sent) :
                        /\ ops'[s].sent[i].t = plan[i].t
                        /\ ops'[s].sent[i].chr = plan[i].chr
                        /\ ops'[s].sent[i].payload = plan[i].payload
          /\ (ops[s].kind \in RequestKinds /\ ops[s].wait
                /\ ops'[s].n = ops[s].n /\ ops'[s].res = "DeviceError")
                => ops'[s].sent = ops[s].sent /\ ~ops'[s].wait
          /\ (ops[s].res = "DeviceError" /\ ops'[s].n = ops[s].n)
                => ops'[s] = ops[s] ]_vars

\* C27 witness: readBattery ended with the transport's error on its second
\* read, having sent each of its two first reads once and the third never.
C27_Witness ==
    \E s \in Slots :
      /\ ops[s].kind = "readBattery"
      /\ ops[s].res = "DeviceError"
      /\ Len(ops[s].sent) = 2
      /\ Len(ops[s].vals) = 1

\* C28: decoding an absent (null) step-list payload gives the empty sequence
\* and no error, and readSteps() of a characteristic that has no value returns
\* { steps: [] }.
C28_NullPayloadIsNoSteps ==
    [][ /\ UnpackAccepts(NullValue)
        /\ unpackStepsFromB64(NullValue) = <<>>
        /\ \A s \in Slots :
             (/\ ops[s].kind = "readSteps"
              /\ ops[s].wait
              /\ ValueHeld("C_STEP_LIST", links[ops[s].dev].held) = NullValue
              /\ ops'[s].n = ops[s].n
              /\ ops'[s] # ops[s]
              /\ ops'[s].res # "DeviceError")
               => /\ ops'[s].res = "ok"
                  /\ ops'[s].vals = << << <<>> >> >> ]_vars

\* C28 witness: readSteps() has returned no steps from a device that holds no
\* step list.
C28_Witness ==
    \E s \in Slots :
      /\ ops[s].kind = "readSteps"
      /\ ops[s].res = "ok"
      /\ ops[s].vals = << << <<>> >> >>
      /\ ValueHeld("C_STEP_LIST", links[ops[s].dev].held) = NullValue

\* C29: the step list of the treatment screen never has fewer than one step,
\* whatever Add Step, Remove Step and the edits of a step do, and Remove Step
\* on a list of one step leaves the list as it is.
C29_AtLeastOneStep ==
    [][ /\ Len(screen.steps) >= 1
        /\ Len(screen'.steps) >= 1
        /\ (screen'.pressed = "remove" /\ Len(screen.steps) = 1)
              => screen'.steps = screen.steps ]_vars

\* C29 witness: a step was added, the first step removed, and Remove Step on
\* the one step left was refused.
C29_Witness ==
    /\ Len(screen.steps) = 1
    /\ screen.steps[1].id = 2
    /\ screen.pressed = "remove"
    /\ screen.alert = "Must have at least one step"

\* What the form's fields must hold: an amplitude that is an integer 0-100
\* and a duration 1-65535 in every step, an intensity 0-100, a total duration
\* of at least 1 ms. White space before the digits is not held against a
\* text.
IsInteger(text) ==
    LET t == TrimStart(text) IN
    /\ t # <<>>
    /\ \A i \in 1..Len(t) : IsDigit(t[i])

FormValid ==
    /\ \A i \in 1..Len(screen.steps) :
         /\ IsInteger(screen.steps[i].amplitude)
         /\ parseInt(screen.steps[i].amplitude) \in 0..100
         /\ IsInteger(screen.steps[i].duration)
         /\ parseInt(screen.steps[i].duration) \in 1..65535
    /\ IsInteger(screen.intensity) /\ parseInt(screen.intensity) \in 0..100
    /\ IsInteger(screen.duration) /\ parseInt(screen.duration) >= 1

\* C30: Send Treatment invokes a write operation of the client only when the
\* screen is connected and every input is valid; with an invalid input it
\* invokes none.
C30_SendOnlyValidInputs ==
    [][ (screen'.writes # screen.writes /\ screen'.writes > 0)
          => screen.connected /\ FormValid ]_vars

\* scanAndConnect call c has resolved or rejected.
Settled(c) == calls[c].st \in { "resolved", "rejected" }

\* C33: a link the client opened is open only as the session's link, once the
\* call that opened it has settled; so at most one such link is open.
C33_OneOpenLink ==
    \A c \in CallIds :
      (links[c].st = "open" /\ Settled(c)) => device = c

\* C34: once a scanAndConnect call has settled, by whichever path, its scan
\* is not active and its deadline timer is not pending; so neither the timer
\* callback nor the scan listener of that call runs again.
C34_SettledCallLeavesNothing ==
    [][ \A c \in CallIds :
          /\ Settled(c) => scanning.call # c /\ calls[c].timer # "armed"
          /\ (calls'[c].st \in { "resolved", "rejected" })
                => scanning'.call # c /\ calls'[c].timer # "armed"
          /\ Settled(c)
                => /\ calls'[c].timer = calls[c].timer
                   /\ calls'[c].attempts = calls[c].attempts ]_vars

\* C34 witness: a call was rejected by its deadline while connect() was in
\* flight, and another by a scan error; no scan is active, no timer pending.
C34_Witness ==
    /\ \E c \in CallIds : /\ calls[c].err = "ScanTimeout"
                          /\ RunsAt(calls[c], "connecting") # {}
                          /\ calls[c].timer = "fired"
    /\ \E c \in CallIds : /\ calls[c].err = "ScanError"
                          /\ calls[c].timer = "cleared"
    /\ scanning = NoScan

\* C35: every scanAndConnect call settles, and has settled when its deadline
\* timer has fired, whatever advertises and whatever connect() and the
\* enumeration do, a connect() that never completes included.
C35_EveryCallSettles ==
    /\ \A c \in CallIds : (calls[c].st = "pending") ~> Settled(c)
    /\ [](\A c \in CallIds : calls[c].timer = "fired" => Settled(c))

\* C35 witness: a call was settled by its deadline with connect() still in
\* flight.
C35_Witness ==
    \E c \in CallIds :
      /\ calls[c].st = "rejected"
      /\ calls[c].err = "ScanTimeout"
      /\ RunsAt(calls[c], "connecting") # {}

\* C39: the payload Send Treatment writes to the total-duration
\* characteristic reads back, as a little-endian u16, as the total duration
\* in the form.
C39_TotalDurationUnaltered ==
    \A s \in Slots :
      (/\ screen.pc = "sending"
       /\ ops[s].kind = "writeTotalDurationMs"
       /\ ops[s].sent # <<>>)
        => readU16(ops[s].sent[1].payload) = parseInt(screen.duration)

\* C40: every step decoded from a step-list payload of the device, which is
\* what readSteps() returns, is within the Step bounds; a list so obtained,
\* when not empty, is accepted by the encoder and encodes to the bytes it
\* came from.
C40_DecodedStepsInBounds ==
    (codec.from = "payload" /\ codec.pc = "unpacked")
      => /\ \A i \in 1..Len(codec.out) : StepInBounds(codec.out[i])
         /\ codec.out # <<>>
              => /\ PackAccepts(codec.out)
                 /\ bytesFromB64(packStepsToB64(codec.out)) = codec.bytes

\* C36: the connected flag of the screen is true only while the client holds
\* a session.
C36_ConnectedOnlyWithSession == screen.connected => device # NoDev

\* C38: while the connected flag of the screen is false (before the first
\* connection, and from a reset by handleDisconnect to the next connection),
\* the battery level, the charger status and the device information of
\* deviceStatus are undefined: a poll in flight at the reset writes nothing.
C38_ResetStaysReset == ~screen.connected => ~screen.battery /\ ~screen.info

\* C31: once the screen is connected and Send Treatment has succeeded, the
\* Start control is rendered, so that pressing it can issue writeControl(1).
C31_StartAfterSend ==
    (screen.connected /\ screen.alert = "Treatment sent to device")
      => StartRendered

\* C37: while the connected flag of the screen is false, every subscription
\* the screen created has been disposed; and at no time are two
\* subscriptions of the screen live on the same characteristic. (The code
\* disposes them in the cleanup of the effect, a task after the commit of
\* the render that follows the reset.)
C37_SubscriptionsDisposed ==
    /\ ~screen.connected => \A m \in monitors : ~m.live /\ m.removes >= 1
    /\ \A m1, m2 \in monitors :
         (m1.live /\ m2.live /\ m1.chr = m2.chr) => m1 = m2

\* C32: unless requestPermissions() has returned true, the treatment screen
\* is not rendered and the client has been asked nothing: no scanAndConnect
\* call, no operation, no subscription, no disconnect, no link.
C32_NothingWithoutPermission ==
    screen.granted # "yes"
      => /\ ~screen.mounted
         /\ nCalls = 0 /\ scanning = NoScan
         /\ \A c \in CallIds : calls[c] = IdleCall
         /\ \A d \in Devs : links[d] = NoLink
         /\ \A s \in Slots : ops[s] = FreeOp
         /\ monitors = {}
         /\ disc = IdleDisc
         /\ device = NoDev

\* C32 witness: requestPermissions() has returned false.
C32_Witness == screen.granted = "no"

====
